---- MODULE Spec2Model ----
(***************************************************************************)
(* FreeRTOScpp ReadWriteLock (src/ReadWrite.cpp, src/ReadWrite.h): the     *)
(* priority-aware, upgradable reader/writer lock, as a state machine.      *)
(*                                                                         *)
(* Granularity.  A critical section (taskENTER_CRITICAL ..                 *)
(* taskEXIT_CRITICAL) is one atomic action.  Every access to readCount,    *)
(* reserved, writeReq or the event group that the source makes outside a   *)
(* critical section is an action of its own, so a task may be preempted    *)
(* between any two of them.  The read of the tick count that follows a     *)
(* failed attempt (lines 84, 107, 179) is part of the action of the        *)
(* attempt: it commutes with every step of the other tasks and of the tick *)
(* interrupt, so no interleaving is lost.                                  *)
(*                                                                         *)
(* Positions (pc).  rl_ = readLock, vl_ = reservedLock, wl_ = writeLock,   *)
(* rr_ = releaseReserved, ru_ = readUnlock, wu_ = writeUnlock.             *)
(*   x_try      at taskENTER_CRITICAL of the loop (76, 98, 170)            *)
(*   x_wait     at the call of event.wait (89, 112, 202)                   *)
(*   x_blocked  blocked inside event.wait                                  *)
(*   x_woke     made ready by the tick, not yet out of event.wait          *)
(*   wl_clear   at the critical section of the timeout (183)               *)
(*   wl_set     at event.set of the timeout (188)                          *)
(*   wl_raise   at the critical section that raises writeReq (195)         *)
(*   rr_clear, rr_set       at lines 131, 133                              *)
(*   ru_clear, ru_set       at lines 143, 145                              *)
(*   ru_crit, ru_read, ru_setw   at lines 147, 159, 160                    *)
(*   wu_res, wu_one, wu_zero, wu_set   at lines 210, 212, 214, 217         *)
(***************************************************************************)
EXTENDS Integers, FiniteSets, Sequences, TLC

\* ---------------------------------------------------------------- bounds
\* Width of TickType_t in bits: the tick count wraps at 2^TickBits.
TickBits == 2
\* The finite, non-zero wait the callers pass.
MaxWait == 1
\* Callers stop asking for read locks once readCount could reach this value.
MaxReaders == 2

\* ------------------------------------------------------------- constants
TickMod == 2 ^ TickBits
portMAX_DELAY == TickMod - 1
read_bit == 1
write_bit == 2
nullptr == "nullptr"
Tasks == {"A", "B", "C", "D"}
Ops == {"readLock", "reservedLock", "requestReserved", "releaseReserved",
        "readUnlock", "writeLock", "writeUnlock"}

VARIABLES
    readCount,  \* ReadWriteLock::readCount
    reserved,   \* ReadWriteLock::reserved (a task, or nullptr)
    writeReq,   \* ReadWriteLock::writeReq (-1 = none)
    event,      \* ReadWriteLock::event: the set of the bits that are set
    now,        \* the tick count
    pc,         \* where every task is in the operation it executes
    start,      \* local 'start' of readLock / reservedLock / writeLock
    wait,       \* parameter 'wait' of readLock / reservedLock / writeLock
    ret,        \* local 'ret' of readUnlock
    result,     \* what the task's last operation returned
    rheld,      \* read locks granted to the task and not yet released
    wheld,      \* the task has been granted the write lock and not released it
    failed,     \* the tasks inside writeLock that have failed an attempt
    zeroed,     \* the tasks at line 159 whose critical section left readCount 0
    age,        \* the ticks that have come while the task Timed was inside its call
    script,     \* the calls of the scenario still to be made, in this order
    \* The rest never changes: it says who uses the lock, and how.
    priority,   \* uxTaskPriorityGet() of every task
    live,       \* the tasks that use the lock
    may,        \* the operations each task calls
    waits,      \* the wait values each task passes
    clock,      \* "counted" or "free": see TickCount
    discipline, \* what the callers respect: see Disciplined
    scenario,   \* the name of the scenario that is played, or "none"
    \* The scope guard of src/Lock.cpp, which no operation of the lock changes.
    lockable,   \* Lock::lockable: "Reader", "Writer", or "none" before construction
    lockCnt,    \* Lock::lockCnt
    guardPc,    \* where the guard is in its constructor, lock, unlock or destructor
    lockRet,    \* what the last lock() of the guard returned
    guardOp,    \* the last member of the guard that was called
    taken       \* successful take() calls of the guard minus its give() calls

vars == <<readCount, reserved, writeReq, event, now, pc, start, wait, ret, result,
          rheld, wheld, failed, zeroed, age, script, priority, live, may, waits, clock, discipline,
          scenario, lockable, lockCnt, guardPc, lockRet, guardOp, taken>>

lockState == <<readCount, reserved, writeReq>>
locals == <<start, wait, ret>>
held == <<rheld, wheld, failed, zeroed, age>>
guard == <<lockable, lockCnt, guardPc, lockRet, guardOp, taken>>
users == <<priority, live, may, waits, clock, discipline, scenario>>
config == <<users, guard>>

\* ------------------------------------------------------------- the clock
\* What xTaskGetTickCount() can return. With the clock counted, the tick count
\* the tick interrupt has reached. With the clock free, any value: the task may
\* have been kept from running for any number of ticks since it last looked.
TickCount == IF clock = "counted" THEN {now} ELSE 0 .. TickMod - 1

\* (n - start) in TickType_t arithmetic: unsigned, modulo 2^TickBits.
Elapsed(t, n) == (n - start[t] + TickMod) % TickMod

\* A timeout test that lets the wait run one tick over.
Expired_late(t, n) == Elapsed(t, n) > wait[t]

\* now-start >= wait, where xTaskGetTickCount() returned n
Expired(t, n) == Elapsed(t, n) >= wait[t]

\* ------------------------------------------------------------- the event group
WaitPcs == {"rl_wait", "vl_wait", "wl_wait"}
BlockedPcs == {"rl_blocked", "vl_blocked", "wl_blocked"}
WokePcs == {"rl_woke", "vl_woke", "wl_woke"}

\* The bit a task inside event.wait waits for: read_bit in readLock and
\* reservedLock, write_bit in writeLock.
WaitBit(p) ==
    IF p \in {"rl_wait", "rl_blocked", "rl_woke", "vl_wait", "vl_blocked", "vl_woke"}
    THEN read_bit ELSE write_bit

\* The top of the loop that the wait is in.
AfterWait(p) ==
    CASE p \in {"rl_wait", "rl_blocked", "rl_woke"} -> "rl_try"
      [] p \in {"vl_wait", "vl_blocked", "vl_woke"} -> "vl_try"
      [] OTHER -> "wl_try"

Blocked(p) ==
    CASE p = "rl_wait" -> "rl_blocked"
      [] p = "vl_wait" -> "vl_blocked"
      [] OTHER -> "wl_blocked"

Woke(p) ==
    CASE p = "rl_blocked" -> "rl_woke"
      [] p = "vl_blocked" -> "vl_woke"
      [] OTHER -> "wl_woke"

\* The tasks blocked in event.wait on one of 'bits'.
Woken(bits) == {u \in Tasks : pc[u] \in BlockedPcs /\ WaitBit(pc[u]) \in bits}

\* EventGroup::set by task t, which goes on to position 'next': the bits are
\* set, every task blocked on a bit now set is made ready, and the bits such a
\* task waited for are cleared on its behalf (clear on exit).
EventSet(t, bits, next) ==
    LET all == event \cup bits
        w == Woken(all)
    IN  /\ event' = all \ {WaitBit(pc[u]) : u \in w}
        /\ pc' = [u \in Tasks |->
                    IF u = t THEN next
                    ELSE IF u \in w THEN AfterWait(pc[u]) ELSE pc[u]]

\* ------------------------------------------------------------- who holds what
\* rheld and wheld record what the callers have been granted, failed which
\* writers have an attempt behind them, zeroed which readUnlock has just left
\* readCount 0, age how many ticks the call of the task Timed has taken (in the
\* scenario "timeout", where it makes one call). No operation of the lock reads or writes
\* them: they are kept up from the steps the operations take, rheld and wheld
\* only for callers that respect a discipline (wheld alone for "owned").
ReadGranted(t) ==
    pc[t] \in {"rl_try", "vl_try"} /\ pc'[t] = "idle" /\ result'[t] = "true"

ReadReleased(t) == pc[t] = "ru_crit" /\ readCount' = readCount - 1

WriteGranted(t) == pc[t] = "wl_try" /\ pc'[t] = "idle" /\ result'[t] = "true"

WriteReleased(t) == pc[t] \in {"wu_one", "wu_zero"} /\ pc'[t] = "wu_set"

\* An attempt of writeLock that does not return has failed.
Failing(t) ==
    failed' = IF pc[t] # "wl_try" THEN failed
              ELSE IF pc'[t] = "idle" THEN failed \ {t} ELSE failed \cup {t}

\* A writeLock that returns has no attempt behind it any more.
Left(t) == failed' = IF pc'[t] = "idle" THEN failed \ {t} ELSE failed

\* The critical section of readUnlock has left readCount 0.
Zeroing(t) ==
    zeroed' = IF pc[t] = "ru_crit" /\ readCount' = 0 THEN zeroed \cup {t} ELSE zeroed

Holding(t) ==
    /\ Failing(t)
    /\ Zeroing(t)
    /\ UNCHANGED age
    /\ IF discipline \in {"any", "owned"}
       THEN UNCHANGED rheld
       ELSE rheld' = [rheld EXCEPT ![t] =
                         IF ReadGranted(t) THEN @ + 1
                         ELSE IF ReadReleased(t) /\ @ > 0 THEN @ - 1 ELSE @]
    /\ IF discipline = "any"
       THEN UNCHANGED wheld
       ELSE wheld' = [wheld EXCEPT ![t] =
                         IF WriteGranted(t) THEN TRUE
                         ELSE IF WriteReleased(t) THEN FALSE ELSE @]

\* ------------------------------------------------------------- the callers
\* What a caller that respects the discipline does not do.
\*   "any"       nothing is ruled out: any operation at any time.
\*   "owned"     writeUnlock is called by a task that has been granted the
\*               write lock and has not released it; nothing else is ruled out.
\*   "protocol"  an unlock matches a lock the caller holds, and requestReserved
\*               is called by a task that holds a read lock.
\*   "strict"    as "protocol", and a task that holds the write lock calls
\*               neither releaseReserved nor readUnlock until it has released
\*               it (the state diagram of ReadWrite.h: writeUnlock is the one
\*               way out of Write and Upgraded).
Disciplined(t, op) ==
    \/ discipline = "any"
    \/ discipline = "owned" /\ (op = "writeUnlock" => wheld[t])
    \/ /\ discipline \in {"protocol", "strict"}
       /\ op = "readUnlock" => rheld[t] > 0
       /\ op = "writeUnlock" => wheld[t]
       /\ op = "requestReserved" => rheld[t] > 0
       /\ op \in {"readLock", "reservedLock"} => rheld[t] < MaxReaders
       /\ discipline = "strict" /\ wheld[t] => op \notin {"releaseReserved", "readUnlock"}

\* A task inside event.wait or in no operation at all.
Quiet(u) == pc[u] \in {"idle"} \cup BlockedPcs

\* In the scenarios named here every task makes its own calls of the script,
\* in their order, whatever the other tasks are doing, and makes no further
\* call once a call of it has returned false.
Concurrent == {"upgrades", "writer", "polling"}

\* The place in the script of the next call of task t, 0 if it has none.
NextCall(t) ==
    IF \E i \in 1 .. Len(script) : script[i][1] = t
    THEN CHOOSE i \in 1 .. Len(script) :
             script[i][1] = t /\ \A j \in 1 .. i - 1 : script[j][1] # t
    ELSE 0

\* The task that owns the scope guard, in the scenario "guard".
Owner == "A"

\* Task t may call op now: the next call of the script while there is one (made
\* once the calls before it have returned or are blocked), and after that what
\* the task calls and its discipline allows. The owner of the guard makes the
\* one call the guard is about to make: a take() at lines 57 and 104 of
\* src/Lock.cpp, a give() at lines 85 and 118.
Permitted(t, op) ==
    IF scenario = "guard" /\ t = Owner
    THEN /\ result[t] = "none"
         /\ \/ guardPc = "take" /\ op \in {"readLock", "writeLock"}
            \/ guardPc \in {"give", "dgive"} /\ op \in {"readUnlock", "writeUnlock"}
    ELSE IF scenario \in Concurrent
    THEN /\ NextCall(t) # 0
         /\ script[NextCall(t)][2] = op
         /\ result[t] # "false"
    ELSE IF script # <<>>
    THEN /\ Head(script)[1] = t
         /\ Head(script)[2] = op
         /\ \A u \in Tasks : Quiet(u)
    ELSE op \in may[t] /\ Disciplined(t, op)

\* The wait values t may pass now.
WaitsOf(t) ==
    IF scenario \in Concurrent
    THEN {script[i][3] : i \in {NextCall(t)} \ {0}}
    ELSE IF script # <<>> THEN {Head(script)[3]} ELSE waits[t]

\* The call of t is made: it leaves the script.
Called(t) ==
    script' =
        IF scenario \in Concurrent
        THEN [j \in 1 .. Len(script) - 1 |->
                 IF j < NextCall(t) THEN script[j] ELSE script[j + 1]]
        ELSE IF script # <<>> THEN Tail(script) ELSE script

\* An operation of task t returns v.
Return(t, v) ==
    /\ pc' = [pc EXCEPT ![t] = "idle"]
    /\ result' = [result EXCEPT ![t] = v]

Goto(t, p) == pc' = [pc EXCEPT ![t] = p]

\* The locals of a call that has returned are gone.
Forget(t) ==
    /\ start' = [start EXCEPT ![t] = 0]
    /\ wait' = [wait EXCEPT ![t] = 0]

\* The tasks inside readLock or reservedLock.
ReadAcquirers == {u \in Tasks : pc[u] \in
    {"rl_try", "rl_wait", "rl_blocked", "rl_woke",
     "vl_try", "vl_wait", "vl_blocked", "vl_woke"}}

\* Bound of the model: outside a scenario, no further read lock is asked for
\* once every pending request being granted would bring readCount to MaxReaders.
ReadBudget ==
    (IF readCount > 0 THEN readCount ELSE 0) + Cardinality(ReadAcquirers) < MaxReaders

\* ------------------------------------------------- readLock (73-91)
\* The call, up to the loop: start = xTaskGetTickCount().
readLock(t, w) ==
    /\ pc[t] = "idle"
    /\ Permitted(t, "readLock")
    /\ script # <<>> \/ ReadBudget
    /\ Goto(t, "rl_try")
    /\ start' = [start EXCEPT ![t] = now]
    /\ wait' = [wait EXCEPT ![t] = w]
    /\ result' = [result EXCEPT ![t] = "none"]
    /\ Called(t)
    /\ UNCHANGED <<lockState, event, now, ret, held, config>>

\* A readLock that takes read_bit for the leave to go in.
ReadAdmitted_flag(t) ==
    \/ readCount >= 0 /\ priority[t] > writeReq
    \/ read_bit \in event

\* A readLock that lets no reader in once a writer has asked.
ReadAdmitted_nowriter(t) == readCount >= 0 /\ writeReq = -1

\* A readLock that lets in the readers of the priority of the request as well.
ReadAdmitted_atleast(t) == readCount >= 0 /\ priority[t] >= writeReq

\* A readLock that does not look at the pending request.
ReadAdmitted_greedy(t) == readCount >= 0

\* The admission test of line 77.
ReadAdmitted(t) == readCount >= 0 /\ priority[t] > writeReq

\* One round of the loop up to the wait (76-88): the attempt inside the critical
\* section and, when it fails, the check of the time that has passed; n is what
\* xTaskGetTickCount() returns.
readLock_try(t, n) ==
    /\ pc[t] = "rl_try"
    /\ IF ReadAdmitted(t)
       THEN /\ readCount' = readCount + 1
            /\ Return(t, "true") /\ Forget(t)
       ELSE /\ UNCHANGED readCount
            /\ IF Expired(t, n)
               THEN Return(t, "false") /\ Forget(t)
               ELSE Goto(t, "rl_wait") /\ UNCHANGED <<result, start, wait>>
    /\ Holding(t)
    /\ UNCHANGED <<reserved, writeReq, event, now, ret, script, config>>

\* ------------------------------------------------- reservedLock (94-114)
reservedLock(t, w) ==
    /\ pc[t] = "idle"
    /\ Permitted(t, "reservedLock")
    /\ script # <<>> \/ ReadBudget
    /\ Goto(t, "vl_try")
    /\ start' = [start EXCEPT ![t] = now]
    /\ wait' = [wait EXCEPT ![t] = w]
    /\ result' = [result EXCEPT ![t] = "none"]
    /\ Called(t)
    /\ UNCHANGED <<lockState, event, now, ret, held, config>>

\* A reservedLock that does not look at the request of a writer.
ReservedAdmitted_greedy(t) == readCount >= 0 /\ reserved = nullptr

\* A reservedLock that forgets to look at the reservation.
ReservedAdmitted_again(t) == readCount >= 0 /\ priority[t] > writeReq

\* The admission test of line 99.
ReservedAdmitted(t) ==
    readCount >= 0 /\ reserved = nullptr /\ priority[t] > writeReq

\* One round of the loop up to the wait (98-111).
reservedLock_try(t, n) ==
    /\ pc[t] = "vl_try"
    /\ IF ReservedAdmitted(t)
       THEN /\ readCount' = readCount + 1
            /\ reserved' = t
            /\ Return(t, "true") /\ Forget(t)
       ELSE /\ UNCHANGED <<readCount, reserved>>
            /\ IF Expired(t, n)
               THEN Return(t, "false") /\ Forget(t)
               ELSE Goto(t, "vl_wait") /\ UNCHANGED <<result, start, wait>>
    /\ Holding(t)
    /\ UNCHANGED <<writeReq, event, now, ret, script, config>>

\* ------------------------------------------------- EventGroup::wait (EventCPP.h 122)
\* event.wait(bit, true, true, 1): returns at once, clearing the bit, when the
\* bit is set; blocks for at most one tick otherwise.
event_wait(t) ==
    /\ pc[t] \in WaitPcs
    /\ IF WaitBit(pc[t]) \in event
       THEN /\ event' = event \ {WaitBit(pc[t])}
            /\ Goto(t, AfterWait(pc[t]))
       ELSE /\ Goto(t, Blocked(pc[t]))
            /\ UNCHANGED event
    /\ UNCHANGED <<lockState, now, locals, result, held, script, config>>

\* The wait ended by its one-tick timeout: the bit is cleared if it has been
\* set in the meantime, and the loop goes round.
event_wait_timeout(t) ==
    /\ pc[t] \in WokePcs
    /\ event' = event \ {WaitBit(pc[t])}
    /\ Goto(t, AfterWait(pc[t]))
    /\ UNCHANGED <<lockState, now, locals, result, held, script, config>>

\* The task whose call is timed in the scenario "timeout", and as many ticks as
\* age counts: the call returns sooner unless the task is kept from running.
Timed == "B"

AgeCap == 2 * TickMod

\* The tick interrupt: every wait of one tick ends, and the tick count, when it
\* is counted, advances and wraps.
Tick ==
    /\ now' = IF clock = "counted" THEN (now + 1) % TickMod ELSE now
    /\ pc' = [u \in Tasks |-> IF pc[u] \in BlockedPcs THEN Woke(pc[u]) ELSE pc[u]]
    /\ age' = IF scenario = "timeout" /\ pc[Timed] # "idle" /\ age < AgeCap
              THEN age + 1 ELSE age
    /\ UNCHANGED <<lockState, event, locals, result, rheld, wheld, failed, zeroed,
                   script, config>>

\* ------------------------------------------------- requestReserved (116-126)
\* A requestReserved that takes the reservation from its holder.
requestReserved_taking(t) ==
    /\ pc[t] = "idle"
    /\ Permitted(t, "requestReserved")
    /\ IF readCount > 0
       THEN reserved' = t /\ Return(t, "true")
       ELSE UNCHANGED reserved /\ Return(t, "false")
    /\ Called(t)
    /\ UNCHANGED <<readCount, writeReq, event, now, locals, held, config>>

\* A requestReserved that yields to the request of a writer, as reservedLock does.
requestReserved_yielding(t) ==
    /\ pc[t] = "idle"
    /\ Permitted(t, "requestReserved")
    /\ IF readCount > 0 /\ reserved = nullptr /\ priority[t] > writeReq
       THEN reserved' = t /\ Return(t, "true")
       ELSE UNCHANGED reserved /\ Return(t, "false")
    /\ Called(t)
    /\ UNCHANGED <<readCount, writeReq, event, now, locals, held, config>>

requestReserved(t) ==
    /\ pc[t] = "idle"
    /\ Permitted(t, "requestReserved")
    /\ IF readCount > 0 /\ reserved = nullptr
       THEN reserved' = t /\ Return(t, "true")
       ELSE UNCHANGED reserved /\ Return(t, "false")
    /\ Called(t)
    /\ UNCHANGED <<readCount, writeReq, event, now, locals, held, config>>

\* ------------------------------------------------- releaseReserved (128-137)
\* The call and the comparison of line 130.
releaseReserved(t) ==
    /\ pc[t] = "idle"
    /\ Permitted(t, "releaseReserved")
    /\ IF reserved = t
       THEN Goto(t, "rr_clear") /\ result' = [result EXCEPT ![t] = "none"]
       ELSE Return(t, "false")
    /\ Called(t)
    /\ UNCHANGED <<lockState, event, now, locals, held, config>>

\* A release that leaves the reservation where it is.
releaseReserved_clear_kept(t) ==
    /\ pc[t] = "rr_clear"
    /\ Goto(t, "rr_set")
    /\ UNCHANGED <<lockState, event, now, locals, result, held, script, config>>

releaseReserved_clear(t) ==
    /\ pc[t] = "rr_clear"
    /\ reserved' = nullptr
    /\ Goto(t, "rr_set")
    /\ UNCHANGED <<readCount, writeReq, event, now, locals, result, held, script, config>>

releaseReserved_set(t) ==
    /\ pc[t] = "rr_set"
    /\ EventSet(t, {read_bit}, "idle")
    /\ result' = [result EXCEPT ![t] = "true"]
    /\ UNCHANGED <<lockState, now, locals, held, script, config>>

\* ------------------------------------------------- readUnlock (139-163)
\* The call and the comparison of line 142.
readUnlock(t) ==
    /\ pc[t] = "idle"
    /\ Permitted(t, "readUnlock")
    /\ ret' = [ret EXCEPT ![t] = TRUE]
    /\ Goto(t, IF reserved = t THEN "ru_clear" ELSE "ru_crit")
    /\ result' = [result EXCEPT ![t] = "none"]
    /\ Called(t)
    /\ UNCHANGED <<lockState, event, now, start, wait, held, config>>

readUnlock_clear(t) ==
    /\ pc[t] = "ru_clear"
    /\ reserved' = nullptr
    /\ Goto(t, "ru_set")
    /\ UNCHANGED <<readCount, writeReq, event, now, locals, result, held, script, config>>

readUnlock_set(t) ==
    /\ pc[t] = "ru_set"
    /\ EventSet(t, {read_bit}, "ru_crit")
    /\ UNCHANGED <<lockState, now, locals, result, held, script, config>>

\* A critical section that leaves a reservation standing when no reader is left.
readUnlock_crit_keeps(t) ==
    /\ pc[t] = "ru_crit"
    /\ readCount' = IF readCount > 0 THEN readCount - 1 ELSE readCount
    /\ ret' = [ret EXCEPT ![t] = readCount > 0]
    /\ Goto(t, "ru_read")
    /\ Holding(t)
    /\ UNCHANGED <<reserved, writeReq, event, now, start, wait, result, script, config>>

\* A critical section that does not report the unlock that matches no lock.
readUnlock_crit_silent(t) ==
    /\ pc[t] = "ru_crit"
    /\ LET rc == IF readCount > 0 THEN readCount - 1 ELSE readCount
       IN  /\ readCount' = rc
           /\ reserved' = IF rc = 0 THEN nullptr ELSE reserved
    /\ Goto(t, "ru_read")
    /\ Holding(t)
    /\ UNCHANGED <<writeReq, event, now, locals, result, script, config>>

\* A readUnlock that counts down whatever the count is.
readUnlock_crit_unchecked(t) ==
    /\ pc[t] = "ru_crit"
    /\ readCount' = readCount - 1
    /\ reserved' = IF readCount - 1 = 0 THEN nullptr ELSE reserved
    /\ Goto(t, "ru_read")
    /\ Holding(t)
    /\ UNCHANGED <<writeReq, event, now, locals, result, script, config>>

\* The critical section (147-157).
readUnlock_crit(t) ==
    /\ pc[t] = "ru_crit"
    /\ LET rc == IF readCount > 0 THEN readCount - 1 ELSE readCount
       IN  /\ readCount' = rc
           /\ ret' = [ret EXCEPT ![t] = readCount > 0]
           /\ reserved' = IF rc = 0 THEN nullptr ELSE reserved
    /\ Goto(t, "ru_read")
    /\ Holding(t)
    /\ UNCHANGED <<writeReq, event, now, start, wait, result, script, config>>

\* The read of readCount outside the critical section (159).
readUnlock_read(t) ==
    /\ pc[t] = "ru_read"
    /\ IF readCount = 0
       THEN Goto(t, "ru_setw") /\ UNCHANGED <<result, ret>>
       ELSE /\ Return(t, IF ret[t] THEN "true" ELSE "false")
            /\ ret' = [ret EXCEPT ![t] = TRUE]
    /\ zeroed' = zeroed \ {t}
    /\ UNCHANGED <<lockState, event, now, start, wait, rheld, wheld, failed, age, script, config>>

readUnlock_setw(t) ==
    /\ pc[t] = "ru_setw"
    /\ EventSet(t, {write_bit}, "idle")
    /\ result' = [result EXCEPT ![t] = IF ret[t] THEN "true" ELSE "false"]
    /\ ret' = [ret EXCEPT ![t] = TRUE]
    /\ UNCHANGED <<lockState, now, start, wait, held, script, config>>

\* ------------------------------------------------- writeLock (165-204)
writeLock(t, w) ==
    /\ pc[t] = "idle"
    /\ Permitted(t, "writeLock")
    /\ Goto(t, "wl_try")
    /\ start' = [start EXCEPT ![t] = now]
    /\ wait' = [wait EXCEPT ![t] = w]
    /\ result' = [result EXCEPT ![t] = "none"]
    /\ Called(t)
    /\ UNCHANGED <<lockState, event, now, ret, held, config>>

\* A writeLock that does not look for a writer inside.
WriteAdmitted_negative(t) == readCount <= (IF reserved = t THEN 1 ELSE 0)

\* A writeLock that lets the holder of the reservation in over other readers.
WriteAdmitted_reserved(t) == 0 <= readCount /\ (readCount = 0 \/ reserved = t)

\* A writeLock without the upgrade: it waits for the last reader, itself included.
WriteAdmitted_free(t) == readCount = 0

\* A writeLock that lets any one reader be upgraded over, reserved or not.
WriteAdmitted_anyone(t) == 0 <= readCount /\ readCount <= 1

\* The admission test of line 171: (reserved == task) is 1 or 0.
WriteAdmitted(t) ==
    0 <= readCount /\ readCount <= (IF reserved = t THEN 1 ELSE 0)

\* A writeLock that leaves its request standing when it succeeds.
writeLock_try_keeps(t, n) ==
    /\ pc[t] = "wl_try"
    /\ IF WriteAdmitted(t)
       THEN /\ readCount' = -1
            /\ Return(t, "true") /\ Forget(t)
       ELSE /\ Goto(t, IF Expired(t, n) THEN "wl_clear" ELSE "wl_raise")
            /\ UNCHANGED <<readCount, result, start, wait>>
    /\ Holding(t)
    /\ UNCHANGED <<reserved, writeReq, event, now, ret, script, config>>

\* One round of the loop up to the timeout check (170-180).
writeLock_try(t, n) ==
    /\ pc[t] = "wl_try"
    /\ IF WriteAdmitted(t)
       THEN /\ readCount' = -1
            /\ writeReq' = -1
            /\ Return(t, "true") /\ Forget(t)
       ELSE /\ Goto(t, IF Expired(t, n) THEN "wl_clear" ELSE "wl_raise")
            /\ UNCHANGED <<readCount, writeReq, result, start, wait>>
    /\ Holding(t)
    /\ UNCHANGED <<reserved, event, now, ret, script, config>>

\* A timeout that leaves the request standing.
writeLock_clear_never(t) ==
    /\ pc[t] = "wl_clear"
    /\ Return(t, "false") /\ Forget(t)
    /\ Left(t)
    /\ UNCHANGED <<lockState, event, now, ret, rheld, wheld, zeroed, age, script, config>>

\* A timeout that withdraws the request whoever made it.
writeLock_clear_always(t) ==
    /\ pc[t] = "wl_clear"
    /\ writeReq' = -1
    /\ Goto(t, "wl_set")
    /\ UNCHANGED <<readCount, reserved, event, now, locals, result, held, script, config>>

\* The critical section of the timeout (183-191); 'priority' is the task's
\* priority as read at line 168.
writeLock_clear(t) ==
    /\ pc[t] = "wl_clear"
    /\ IF writeReq = priority[t]
       THEN /\ writeReq' = -1
            /\ Goto(t, "wl_set")
            /\ UNCHANGED <<result, start, wait>>
       ELSE /\ Return(t, "false") /\ Forget(t)
            /\ UNCHANGED writeReq
    /\ Left(t)
    /\ UNCHANGED <<readCount, reserved, event, now, ret, rheld, wheld, zeroed, age, script, config>>

writeLock_set(t) ==
    /\ pc[t] = "wl_set"
    /\ EventSet(t, {read_bit, write_bit}, "idle")
    /\ result' = [result EXCEPT ![t] = "false"]
    /\ Forget(t)
    /\ Left(t)
    /\ UNCHANGED <<lockState, now, ret, rheld, wheld, zeroed, age, script, config>>

\* A raise that overwrites the request of a writer of higher priority.
writeLock_raise_always(t) ==
    /\ pc[t] = "wl_raise"
    /\ writeReq' = priority[t]
    /\ Goto(t, "wl_wait")
    /\ UNCHANGED <<readCount, reserved, event, now, locals, result, held, script, config>>

\* The critical section that raises the request (195-200).
writeLock_raise(t) ==
    /\ pc[t] = "wl_raise"
    /\ writeReq' = IF writeReq < priority[t] THEN priority[t] ELSE writeReq
    /\ Goto(t, "wl_wait")
    /\ UNCHANGED <<readCount, reserved, event, now, locals, result, held, script, config>>

\* ------------------------------------------------- writeUnlock (206-219)
\* A writeUnlock without the test of line 209.
writeUnlock_unchecked(t) ==
    /\ pc[t] = "idle"
    /\ Permitted(t, "writeUnlock")
    /\ Goto(t, "wu_res") /\ result' = [result EXCEPT ![t] = "none"]
    /\ Called(t)
    /\ UNCHANGED <<lockState, event, now, locals, held, config>>

\* The call and the test of line 209.
writeUnlock(t) ==
    /\ pc[t] = "idle"
    /\ Permitted(t, "writeUnlock")
    /\ IF readCount >= 0
       THEN Return(t, "false")
       ELSE Goto(t, "wu_res") /\ result' = [result EXCEPT ![t] = "none"]
    /\ Called(t)
    /\ UNCHANGED <<lockState, event, now, locals, held, config>>

\* A writeUnlock that forgets the upgrade.
writeUnlock_res_plain(t) ==
    /\ pc[t] = "wu_res"
    /\ Goto(t, "wu_zero")
    /\ UNCHANGED <<lockState, event, now, locals, result, held, script, config>>

\* The comparison of line 210.
writeUnlock_res(t) ==
    /\ pc[t] = "wu_res"
    /\ Goto(t, IF reserved = t THEN "wu_one" ELSE "wu_zero")
    /\ UNCHANGED <<lockState, event, now, locals, result, held, script, config>>

\* A writeUnlock that always leaves the lock free, upgraded or not.
writeUnlock_write_zero(t) ==
    /\ pc[t] \in {"wu_one", "wu_zero"}
    /\ readCount' = 0
    /\ Goto(t, "wu_set")
    /\ Holding(t)
    /\ UNCHANGED <<reserved, writeReq, event, now, locals, result, script, config>>

\* The assignment of line 212 or 214.
writeUnlock_write(t) ==
    /\ pc[t] \in {"wu_one", "wu_zero"}
    /\ readCount' = IF pc[t] = "wu_one" THEN 1 ELSE 0
    /\ Goto(t, "wu_set")
    /\ Holding(t)
    /\ UNCHANGED <<reserved, writeReq, event, now, locals, result, script, config>>

\* A writeUnlock that tells the writers alone.
writeUnlock_set_writers(t) ==
    /\ pc[t] = "wu_set"
    /\ EventSet(t, {write_bit}, "idle")
    /\ result' = [result EXCEPT ![t] = "true"]
    /\ UNCHANGED <<lockState, now, locals, held, script, config>>

writeUnlock_set(t) ==
    /\ pc[t] = "wu_set"
    /\ EventSet(t, {read_bit, write_bit}, "idle")
    /\ result' = [result EXCEPT ![t] = "true"]
    /\ UNCHANGED <<lockState, now, locals, held, script, config>>

\* ------------------------------------------------- the system
Next ==
    \/ \E t \in live : \E w \in WaitsOf(t) : readLock(t, w)
    \/ \E t \in live, n \in TickCount : readLock_try(t, n)
    \/ \E t \in live : \E w \in WaitsOf(t) : reservedLock(t, w)
    \/ \E t \in live, n \in TickCount : reservedLock_try(t, n)
    \/ \E t \in live : event_wait(t)
    \/ \E t \in live : event_wait_timeout(t)
    \/ Tick
    \/ \E t \in live : requestReserved(t)
    \/ \E t \in live : releaseReserved(t)
    \/ \E t \in live : releaseReserved_clear(t)
    \/ \E t \in live : releaseReserved_set(t)
    \/ \E t \in live : readUnlock(t)
    \/ \E t \in live : readUnlock_clear(t)
    \/ \E t \in live : readUnlock_set(t)
    \/ \E t \in live : readUnlock_crit(t)
    \/ \E t \in live : readUnlock_read(t)
    \/ \E t \in live : readUnlock_setw(t)
    \/ \E t \in live : \E w \in WaitsOf(t) : writeLock(t, w)
    \/ \E t \in live, n \in TickCount : writeLock_try(t, n)
    \/ \E t \in live : writeLock_clear(t)
    \/ \E t \in live : writeLock_set(t)
    \/ \E t \in live : writeLock_raise(t)
    \/ \E t \in live : writeUnlock(t)
    \/ \E t \in live : writeUnlock_res(t)
    \/ \E t \in live : writeUnlock_write(t)
    \/ \E t \in live : writeUnlock_set(t)

\* The lock as constructed (ReadWrite.h 210, 218, 224), no task in an operation.
InitLock ==
    /\ readCount = 0
    /\ reserved = nullptr
    /\ writeReq = -1
    /\ event = {}
    /\ now \in (IF clock = "counted" THEN 0 .. TickMod - 1 ELSE {0})
    /\ pc = [t \in Tasks |-> "idle"]
    /\ start = [t \in Tasks |-> 0]
    /\ wait = [t \in Tasks |-> 0]
    /\ ret = [t \in Tasks |-> TRUE]
    /\ result = [t \in Tasks |-> "none"]
    /\ rheld = [t \in Tasks |-> 0]
    /\ wheld = [t \in Tasks |-> FALSE]
    /\ failed = {}
    /\ zeroed = {}
    /\ age = 0
    /\ lockable = "none"
    /\ lockCnt = 0
    /\ guardPc = "none"
    /\ lockRet = "none"
    /\ guardOp = "none"
    /\ taken = 0

\* Two tasks, of equal or of different priority, that call any operation at any
\* time, whatever they hold.
Init ==
    /\ clock = "free"
    /\ discipline = "any"
    /\ InitLock
    /\ live = {"A", "B"}
    /\ priority \in {[t \in Tasks |-> 1], [t \in Tasks |-> IF t = "A" THEN 1 ELSE 2]}
    /\ may = [t \in Tasks |-> Ops]
    /\ waits = [t \in Tasks |-> {0, MaxWait}]
    /\ script = <<>>
    /\ scenario = "none"

Spec == Init /\ [][Next]_vars

\* Two tasks as in Init, that call any operation at any time, or any but a
\* writeUnlock of a write lock they do not hold.
InitOwned ==
    /\ clock = "free"
    /\ discipline \in {"any", "owned"}
    /\ InitLock
    /\ live = {"A", "B"}
    /\ priority \in {[t \in Tasks |-> 1], [t \in Tasks |-> IF t = "A" THEN 1 ELSE 2]}
    /\ may = [t \in Tasks |-> Ops]
    /\ waits = [t \in Tasks |-> {0, MaxWait}]
    /\ script = <<>>
    /\ scenario = "none"

SpecOwned == InitOwned /\ [][Next]_vars

\* What each of three tasks calls: an upgrader, a reader and a writer.
Roles ==
    [t \in Tasks |->
        CASE t = "A" -> {"reservedLock", "releaseReserved", "readUnlock",
                         "writeLock", "writeUnlock"}
          [] t = "B" -> {"readLock", "requestReserved", "readUnlock"}
          [] OTHER -> {"writeLock", "writeUnlock"}]

\* Tasks that respect a discipline. Two tasks that call any operation the
\* protocol, or the strict protocol, allows them; or an upgrader, a reader and a
\* writer that respect the strict protocol.
InitProtocol ==
    /\ clock = "free"
    /\ InitLock
    /\ \/ /\ discipline \in {"protocol", "strict"}
          /\ live = {"A", "B"}
          /\ priority = [t \in Tasks |-> IF t = "B" THEN 2 ELSE 1]
          /\ may = [t \in Tasks |-> Ops]
       \/ /\ discipline = "strict"
          /\ live = {"A", "B", "C"}
          /\ priority = [t \in Tasks |-> IF t = "C" THEN 2 ELSE 1]
          /\ may = Roles
    /\ waits = [t \in Tasks |-> {0, MaxWait}]
    /\ script = <<>>
    /\ scenario = "none"

SpecProtocol == InitProtocol /\ [][Next]_vars

\* ------------------------------------------------- steps, as the claims see them
\* Task t takes a step of the operation it is in.
Moves(t) == pc'[t] # pc[t]

\* Task t returns v with this step.
Returns(t, v) == pc'[t] = "idle" /\ result'[t] = v

\* ------------------------------------------------- scenarios
\* The scenario of the design: a reservation, a second reader, a writer of
\* priority 5 and a reader of priority 3 that both poll, and the upgrade.
Numeric ==
    << <<"A", "reservedLock", portMAX_DELAY>>, <<"B", "readLock", 0>>,
       <<"C", "writeLock", 0>>, <<"D", "readLock", 0>>,
       <<"B", "readUnlock", 0>>, <<"A", "writeLock", 0>> >>

\* Upgrade and downgrade by one task, the reservation taken with the read lock
\* or after it.
Downgrade ==
    { << <<"A", "reservedLock", 0>>, <<"A", "writeLock", 0>>,
         <<"A", "writeUnlock", 0>>, <<"A", "readUnlock", 0>> >>,
      << <<"A", "readLock", 0>>, <<"A", "requestReserved", 0>>,
         <<"A", "writeLock", 0>>, <<"A", "writeUnlock", 0>>,
         <<"A", "readUnlock", 0>> >> }

\* Two readers, one with the reservation, then a writer and a reader that wait.
Contended ==
    << <<"A", "reservedLock", 0>>, <<"B", "readLock", 0>>,
       <<"C", "writeLock", MaxWait>>, <<"D", "readLock", MaxWait>>,
       <<"A", "releaseReserved", 0>>, <<"B", "readUnlock", 0>>,
       <<"A", "readUnlock", 0>> >>

\* A holds the write lock for good; B calls readLock, reservedLock or writeLock
\* with the default wait, portMAX_DELAY (ReadWrite.h 160, 170, 190).
Forever ==
    { << <<"A", "writeLock", 0>>, <<"B", op, portMAX_DELAY>> >> :
          op \in {"readLock", "reservedLock", "writeLock"} }

\* An unlock by B, which holds nothing, while A holds nothing (its own unlock
\* has failed), a read lock or the write lock; each script with its name.
Misuse ==
    { <<"free, readUnlock", << <<"A", "readUnlock", 0>>, <<"B", "readUnlock", 0>> >> >>,
      <<"free, writeUnlock", << <<"A", "readUnlock", 0>>, <<"B", "writeUnlock", 0>> >> >>,
      <<"read, readUnlock", << <<"A", "readLock", 0>>, <<"B", "readUnlock", 0>> >> >>,
      <<"read, writeUnlock", << <<"A", "readLock", 0>>, <<"B", "writeUnlock", 0>> >> >>,
      <<"write, readUnlock", << <<"A", "writeLock", 0>>, <<"B", "readUnlock", 0>> >> >>,
      <<"write, writeUnlock", << <<"A", "writeLock", 0>>, <<"B", "writeUnlock", 0>> >> >> }

\* B reads; the writer D of priority 3 and then the writer C of priority 5 wait,
\* C for MaxWait ticks; then the reader A waits.
Gap ==
    << <<"B", "readLock", 0>>, <<"D", "writeLock", portMAX_DELAY>>,
       <<"C", "writeLock", MaxWait>>, <<"A", "readLock", portMAX_DELAY>> >>

\* Four tasks that make the calls of one scenario and no other call; C has
\* priority 5, D priority 3, A and B a priority below or between them; the tick
\* count starts anywhere.
InitScenario ==
    /\ clock = "counted"
    /\ discipline = "any"
    /\ InitLock
    /\ live = Tasks
    /\ priority \in {[t \in Tasks |-> CASE t = "A" -> a [] t = "B" -> b
                                        [] t = "C" -> 5 [] OTHER -> 3] :
                         a \in {1, 4}, b \in {1, 4}}
    /\ may = [t \in Tasks |-> {}]
    /\ waits = [t \in Tasks |-> {}]
    /\ \/ scenario = "numeric" /\ script = Numeric
       \/ scenario = "downgrade" /\ script \in Downgrade
       \/ scenario = "contended" /\ script = Contended
       \/ scenario = "forever" /\ script \in Forever
       \/ \E m \in Misuse : scenario = m[1] /\ script = m[2]

SpecScenario == InitScenario /\ [][Next]_vars

\* The four tasks make the calls of Gap and no other call; the tasks may be
\* delayed for any time between two steps.
InitGap ==
    /\ clock = "free"
    /\ discipline = "any"
    /\ InitLock
    /\ live = Tasks
    /\ priority \in {[t \in Tasks |-> CASE t = "A" -> a [] t = "B" -> 1
                                        [] t = "C" -> 5 [] OTHER -> 3] :
                         a \in {1, 4}}
    /\ may = [t \in Tasks |-> {}]
    /\ waits = [t \in Tasks |-> {}]
    /\ scenario = "gap"
    /\ script = Gap

\* The steps of readLock and of writeLock, and the tick.
NextGap ==
    \/ \E t \in live : \E w \in WaitsOf(t) : readLock(t, w)
    \/ \E t \in live, n \in TickCount : readLock_try(t, n)
    \/ \E t \in live : event_wait(t)
    \/ \E t \in live : event_wait_timeout(t)
    \/ \E t \in live : \E w \in WaitsOf(t) : writeLock(t, w)
    \/ \E t \in live, n \in TickCount : writeLock_try(t, n)
    \/ \E t \in live : writeLock_clear(t)
    \/ \E t \in live : writeLock_set(t)
    \/ \E t \in live : writeLock_raise(t)
    \/ Tick

SpecGap == InitGap /\ [][NextGap]_vars

\* n calls of the scenario are still to be made, and every call made has returned.
Remaining(name, n) ==
    scenario = name /\ Len(script) = n /\ \A t \in Tasks : pc[t] = "idle"

\* C5: after the holder of an upgraded write lock (readCount = -1, reserved =
\* caller) has called writeUnlock, readCount = 1 and reserved is unchanged;
\* after its readUnlock that follows, with no operation between the two, which
\* returns true, readCount = 0 and reserved is empty.
C5_Downgrade ==
    /\ Remaining("downgrade", 2) => readCount = -1 /\ reserved = "A"
    /\ Remaining("downgrade", 1) =>
          result["A"] = "true" /\ readCount = 1 /\ reserved = "A"
    /\ Remaining("downgrade", 0) =>
          result["A"] = "true" /\ readCount = 0 /\ reserved = nullptr

\* The readUnlock that follows the downgrade has returned.
C5_Witness == Remaining("downgrade", 0) /\ result["A"] = "true"

\* The fields of the lock.
State(rc, res, wr) == readCount = rc /\ reserved = res /\ writeReq = wr

\* C9 as stated: the scenario returns true, true, false, false, true, true and
\* goes through (1, A, none), (2, A, none), (2, A, 5), (2, A, 5), (1, A, 5),
\* (-1, A, none).
C9_NumericAsStated ==
    /\ Remaining("numeric", 6) => State(0, nullptr, -1)
    /\ Remaining("numeric", 5) => result["A"] = "true" /\ State(1, "A", -1)
    /\ Remaining("numeric", 4) => result["B"] = "true" /\ State(2, "A", -1)
    /\ Remaining("numeric", 3) => result["C"] = "false" /\ State(2, "A", 5)
    /\ Remaining("numeric", 2) => result["D"] = "false" /\ State(2, "A", 5)
    /\ Remaining("numeric", 1) => result["B"] = "true" /\ State(1, "A", 5)
    /\ Remaining("numeric", 0) => result["A"] = "true" /\ State(-1, "A", -1)

\* C9 amended: the scenario returns true, true, false, true, true, false and
\* goes through (1, A, none), (2, A, none), (2, A, none), (3, A, none),
\* (2, A, none), (2, A, none): the writer that polls leaves no request behind,
\* so the reader of priority 3 is admitted and the upgrade finds two readers.
C9_Numeric ==
    /\ Remaining("numeric", 6) => State(0, nullptr, -1)
    /\ Remaining("numeric", 5) => result["A"] = "true" /\ State(1, "A", -1)
    /\ Remaining("numeric", 4) => result["B"] = "true" /\ State(2, "A", -1)
    /\ Remaining("numeric", 3) => result["C"] = "false" /\ State(2, "A", -1)
    /\ Remaining("numeric", 2) => result["D"] = "true" /\ State(3, "A", -1)
    /\ Remaining("numeric", 1) => result["B"] = "true" /\ State(2, "A", -1)
    /\ Remaining("numeric", 0) => result["A"] = "false" /\ State(2, "A", -1)

\* The last call of the scenario has returned.
C9_Witness == Remaining("numeric", 0) /\ result["A"] = "false"

\* ------------------------------------------------- starvation of writers
ReaderOps == {"readLock", "readUnlock"}
ReserverOps == {"readLock", "reservedLock", "requestReserved", "releaseReserved",
                "readUnlock"}
WriterOps == {"writeLock", "writeUnlock"}

\* Three tasks that respect the strict protocol. Either a reader A of priority
\* 1, a reader B of priority 3 that also takes the reservation, and the one
\* writer C of priority 2; or the reader A of priority 1 and two writers B and
\* C of priority 2.
InitStarvation ==
    /\ clock = "free"
    /\ discipline = "strict"
    /\ InitLock
    /\ live = {"A", "B", "C"}
    /\ \/ /\ priority = [t \in Tasks |-> CASE t = "A" -> 1 [] t = "B" -> 3 [] OTHER -> 2]
          /\ may = [t \in Tasks |-> CASE t = "A" -> ReaderOps [] t = "B" -> ReserverOps
                                     [] OTHER -> WriterOps]
       \/ /\ priority = [t \in Tasks |-> IF t = "A" THEN 1 ELSE 2]
          /\ may = [t \in Tasks |-> IF t = "A" THEN ReaderOps ELSE WriterOps]
    /\ waits = [t \in Tasks |-> {0, MaxWait}]
    /\ script = <<>>
    /\ scenario = "none"

SpecStarvation == InitStarvation /\ [][Next]_vars

\* The tasks that call writeLock.
Writers == {t \in live : "writeLock" \in may[t]}

\* C6 as stated: while a writer is in writeLock after its first failed attempt
\* (it is about to raise writeReq, or waits on the event group), no readLock
\* of a reader whose priority is at most the writer's succeeds, whatever the
\* other readers, upgraders and writers do.
C6_StarvationAsStated ==
    [][\A w \in live : \A r \in live \ {w} :
         /\ pc[w] \in {"wl_raise", "wl_wait", "wl_blocked", "wl_woke"}
         /\ priority[r] <= priority[w]
         /\ pc[r] = "rl_try"
         => ~Returns(r, "true")]_vars

\* C6 amended: when one task w only calls writeLock, then its raise of
\* writeReq leaves writeReq at its priority P, writeReq stays P until w
\* succeeds or times out and clears it, and as long as writeReq is P no
\* readLock of a reader whose priority is at most P succeeds.
C6_Starvation ==
    [][\A w \in live : Writers = {w} =>
         /\ pc[w] = "wl_raise" /\ Moves(w) => writeReq' = priority[w]
         /\ writeReq = priority[w] /\ writeReq' # writeReq =>
               \/ pc[w] = "wl_try" /\ Returns(w, "true")
               \/ pc[w] = "wl_clear" /\ pc'[w] = "wl_set"
         /\ \A r \in live \ {w} :
               /\ writeReq = priority[w]
               /\ priority[r] <= priority[w]
               /\ pc[r] = "rl_try"
               => ~Returns(r, "true")]_vars

\* The reader A of priority 1 makes an attempt while the one writer C, of
\* priority 2, is blocked with its request up and B reads.
C6_Witness ==
    /\ Writers = {"C"}
    /\ pc["C"] = "wl_blocked" /\ writeReq = priority["C"]
    /\ pc["A"] = "rl_try" /\ readCount > 0

\* ------------------------------------------------- mutual exclusion
\* Readers and a writer never hold the lock together: while readCount = -1 one
\* task holds the write lock and no other task holds a read lock or the write
\* lock, and while a task holds a plain read lock readCount >= 1.
Exclusive ==
    /\ readCount = -1 =>
          \E t \in live :
              /\ wheld[t]
              /\ \A u \in live \ {t} : ~wheld[u] /\ rheld[u] = 0
    /\ \A t \in live : rheld[t] > 0 /\ ~wheld[t] => readCount >= 1

\* C1 as stated: mutual exclusion, Exclusive, holds in every reachable state
\* when the tasks follow the protocol (each unlock matches a lock the caller
\* holds, requestReserved is called only by a task holding a read lock).
C1_MutualExclusionProtocol == discipline \in {"protocol", "strict"} => Exclusive

\* C1 amended: mutual exclusion, Exclusive, holds in every reachable state when
\* the tasks follow the protocol and a task that holds the write lock calls
\* neither releaseReserved nor readUnlock before it has called writeUnlock.
C1_MutualExclusion == discipline = "strict" => Exclusive

\* An upgraded write lock is held by A while the reader B, and with three tasks
\* the writer C as well, is blocked in its wait.
C1_Witness ==
    /\ discipline = "strict"
    /\ readCount = -1 /\ reserved = "A" /\ wheld["A"] /\ rheld["A"] = 1
    /\ pc["B"] = "rl_blocked"
    /\ "C" \in live => pc["C"] = "wl_blocked"

\* ------------------------------------------------- the phases
\* The states of ReadWrite.h (83-88), from the fields.
Phase ==
    CASE readCount = 0 -> "Free"
      [] readCount > 0 /\ reserved = nullptr -> "Read"
      [] readCount > 0 /\ reserved # nullptr -> "Reserved"
      [] readCount = -1 /\ reserved = nullptr -> "Write"
      [] readCount = -1 /\ reserved # nullptr -> "Upgraded"
      [] OTHER -> "none"

\* C2: whatever the callers do, unmatched unlocks and timed-out calls included,
\* readCount is never less than -1, so that the lock is always in one of the
\* phases Free, Read, Reserved, Write, Upgraded.
C2_ReadCountValid == readCount >= -1 /\ Phase # "none"

\* A readUnlock that matches no read lock has found the lock in write mode.
C2_Witness ==
    \E t \in live : pc[t] = "ru_read" /\ ~ret[t] /\ readCount = -1

\* C3: reserved changes only from empty to a task or from a task to empty;
\* reservedLock and requestReserved succeed only when reserved is empty, and
\* make the caller the holder; a reservedLock that finds its wait elapsed
\* while the reservation is held returns false.
C3_ReservationUnique ==
    [][/\ reserved' # reserved => reserved = nullptr \/ reserved' = nullptr
       /\ \A t \in live :
            /\ pc[t] = "vl_try" /\ Returns(t, "true") =>
                  reserved = nullptr /\ reserved' = t
            /\ requestReserved(t) /\ Returns(t, "true") =>
                  reserved = nullptr /\ reserved' = t
            /\ \A n \in TickCount :
                  reservedLock_try(t, n) /\ Expired(t, n) /\ reserved # nullptr =>
                      Returns(t, "false") /\ reserved' = reserved]_vars

\* B has waited a tick in reservedLock while A holds the reservation.
C3_Witness ==
    reserved = "A" /\ pc["B"] = "vl_woke" /\ wait["B"] = MaxWait

\* C4: an attempt of writeLock that finds readCount = 1 and reserved = caller
\* succeeds: the caller returns true from it, in write mode, whatever its
\* wait, its priority and writeReq are, without having called readUnlock and
\* without a wait on the event group.
C4_UpgradeSucceeds ==
    [][\A t \in live :
         pc[t] = "wl_try" /\ Moves(t) /\ readCount = 1 /\ reserved = t =>
             Returns(t, "true") /\ readCount' = -1 /\ reserved' = t]_vars

\* A, the one reader and holder of the reservation, is at its attempt with a
\* wait of 0 while a writer of higher priority has its request up.
C4_Witness ==
    /\ pc["A"] = "wl_try" /\ wait["A"] = 0
    /\ readCount = 1 /\ reserved = "A"
    /\ writeReq > priority["A"]

\* C7: a writer that times out while writeReq is its own priority, as it is
\* when it was the last to set writeReq, sets writeReq to none, leaves it so and
\* returns false.
C7_TimeoutClears ==
    [][\A t \in live :
         /\ pc[t] = "wl_clear" /\ Moves(t) /\ writeReq = priority[t] =>
               writeReq' = -1 /\ pc'[t] = "wl_set"
         /\ pc[t] = "wl_set" /\ Moves(t) =>
               writeReq' = writeReq /\ Returns(t, "false")]_vars

\* A has timed out and withdrawn its request, and is about to return.
C7_Witness == pc["A"] = "wl_set" /\ writeReq = -1

\* C8: a writer that times out while writeReq is not its own priority returns
\* false and leaves writeReq, readCount, reserved and the event flags as they
\* were; no task leaves its wait.
C8_TimeoutSuperseded ==
    [][\A t \in live :
         pc[t] = "wl_clear" /\ Moves(t) /\ writeReq # priority[t] =>
             /\ Returns(t, "false")
             /\ UNCHANGED <<readCount, reserved, writeReq, event>>
             /\ \A u \in Tasks \ {t} : pc'[u] = pc[u]]_vars

\* A has timed out while the request of a writer of higher priority stands.
C8_Witness == pc["A"] = "wl_clear" /\ writeReq > priority["A"]

\* C10: readLock, reservedLock and writeLock called with a wait of 0 make one
\* attempt: they return true from it when the admission test holds, and
\* otherwise return false without a wait on the event group.
C10_ZeroWaitPolls ==
    [][\A t \in live : wait[t] = 0 /\ Moves(t) =>
         /\ pc[t] = "rl_try" =>
               Returns(t, IF ReadAdmitted(t) THEN "true" ELSE "false")
         /\ pc[t] = "vl_try" =>
               Returns(t, IF ReservedAdmitted(t) THEN "true" ELSE "false")
         /\ pc[t] = "wl_try" =>
               IF WriteAdmitted(t) THEN Returns(t, "true") ELSE pc'[t] = "wl_clear"
         /\ pc[t] = "wl_clear" => Returns(t, "false") \/ pc'[t] = "wl_set"
         /\ pc[t] = "wl_set" => Returns(t, "false")]_vars

\* A writeLock with a wait of 0 has failed its one attempt.
C10_Witness == \E t \in live : pc[t] = "wl_clear" /\ wait[t] = 0

\* ------------------------------------------------- the infinite wait
\* C11: a readLock, reservedLock or writeLock called with the infinite wait,
\* portMAX_DELAY, never returns false, however many ticks go by before the
\* lock is free, the wrap-around of the tick count included.
C11_InfiniteWait ==
    [][\A t \in live :
         pc[t] # "idle" /\ wait[t] = portMAX_DELAY => ~Returns(t, "false")]_vars

\* ------------------------------------------------- admission
\* C12: an attempt of readLock succeeds if and only if readCount >= 0 and the
\* priority of the caller is strictly greater than writeReq; a successful
\* attempt adds one to readCount and leaves reserved and writeReq unchanged,
\* however many readers hold the lock.
C12_ReadAdmission ==
    [][\A t \in live : pc[t] = "rl_try" /\ Moves(t) =>
         /\ Returns(t, "true") <=> readCount >= 0 /\ priority[t] > writeReq
         /\ Returns(t, "true") =>
               /\ readCount' = readCount + 1
               /\ reserved' = reserved
               /\ writeReq' = writeReq]_vars

\* B, of priority 2, is at its attempt while a reader holds the lock and the
\* request of a writer of priority 1 stands.
C12_Witness ==
    pc["B"] = "rl_try" /\ readCount = 1 /\ writeReq = 1 /\ priority["B"] = 2

\* A writer other than r waits on the event group with its request, writeReq,
\* standing.
WriterWaits(r) ==
    \E w \in live \ {r} :
        /\ pc[w] \in {"wl_wait", "wl_blocked", "wl_woke"}
        /\ priority[w] = writeReq

\* C13 as stated: while readCount >= 0 and a writer waits with writeReq = P,
\* an attempt of readLock by a caller whose priority is equal to or greater
\* than P is admitted.
C13_ReadersAtOrAbove ==
    [][\A r \in live :
         /\ pc[r] = "rl_try" /\ Moves(r)
         /\ readCount >= 0 /\ WriterWaits(r)
         /\ priority[r] >= writeReq
         => Returns(r, "true")]_vars

\* C13 amended: while readCount >= 0 and a writer waits with writeReq = P, an
\* attempt of readLock by a caller whose priority is strictly greater than P
\* is admitted, and one by a caller whose priority is P is not.
C13_ReadersAbove ==
    [][\A r \in live :
         /\ pc[r] = "rl_try" /\ Moves(r)
         /\ readCount >= 0 /\ WriterWaits(r)
         => /\ priority[r] > writeReq => Returns(r, "true")
            /\ priority[r] = writeReq => ~Returns(r, "true")]_vars

\* B, of priority 2, is at its attempt while the writer A, of priority 1, is
\* blocked with its request standing and the lock is in read mode.
C13_Witness ==
    /\ pc["B"] = "rl_try" /\ priority["B"] = 2
    /\ pc["A"] = "wl_blocked" /\ writeReq = 1 /\ readCount > 0

\* C14: an attempt of reservedLock succeeds if and only if readCount >= 0,
\* reserved is empty and the priority of the caller is strictly greater than
\* writeReq; a successful attempt adds one to readCount, makes the caller the
\* holder of the reservation and leaves writeReq unchanged; a caller whose
\* priority is at most writeReq is not admitted, also when reserved is empty.
C14_ReservedAdmission ==
    [][\A t \in live : pc[t] = "vl_try" /\ Moves(t) =>
         /\ Returns(t, "true") <=>
               readCount >= 0 /\ reserved = nullptr /\ priority[t] > writeReq
         /\ Returns(t, "true") =>
               /\ readCount' = readCount + 1
               /\ reserved' = t
               /\ writeReq' = writeReq
         /\ priority[t] <= writeReq => ~Returns(t, "true")]_vars

\* A is at its attempt while the reservation is free, the lock is in read mode
\* and the request of a writer of its own priority or above stands.
C14_Witness ==
    /\ pc["A"] = "vl_try" /\ reserved = nullptr /\ readCount > 0
    /\ writeReq >= priority["A"]

\* C15: an attempt of writeLock succeeds if and only if readCount = 0, or
\* readCount = 1 and reserved is the caller; a successful attempt sets
\* readCount to -1 and writeReq to none and leaves reserved unchanged; no
\* attempt succeeds while readCount = -1, while readCount >= 2, or while
\* readCount = 1 and the caller does not hold the reservation.
C15_WriteAdmission ==
    [][\A t \in live : pc[t] = "wl_try" /\ Moves(t) =>
         /\ Returns(t, "true") <=>
               readCount = 0 \/ (readCount = 1 /\ reserved = t)
         /\ Returns(t, "true") =>
               /\ readCount' = -1
               /\ writeReq' = -1
               /\ reserved' = reserved
         /\ readCount = -1 \/ readCount >= 2 \/ (readCount = 1 /\ reserved # t) =>
               ~Returns(t, "true")]_vars

\* A, which holds the reservation, is at its attempt while a writer is inside.
C15_Witness == pc["A"] = "wl_try" /\ reserved = "A" /\ readCount = -1

\* ------------------------------------------------- the request of the writers
\* C16: a failed attempt of writeLock that is followed by a wait sets
\* writeReq, before the wait, to the priority of the caller if and only if
\* that priority exceeds writeReq; writeReq is lowered only by being set to
\* none, and only by a successful writeLock or by a writeLock that times out
\* with a priority equal to writeReq; no other step changes writeReq.
C16_RequestMonotonic ==
    [][/\ \A t \in live :
            /\ pc[t] = "wl_try" /\ Moves(t) /\ ~Returns(t, "true") =>
                  pc'[t] \in {"wl_raise", "wl_clear"} /\ writeReq' = writeReq
            /\ pc[t] = "wl_raise" /\ Moves(t) =>
                  /\ pc'[t] = "wl_wait"
                  /\ writeReq' = IF priority[t] > writeReq THEN priority[t]
                                                           ELSE writeReq
       /\ writeReq' > writeReq =>
             \E t \in live : pc[t] = "wl_raise" /\ Moves(t) /\ writeReq' = priority[t]
       /\ writeReq' < writeReq =>
             /\ writeReq' = -1
             /\ \E t \in live :
                   \/ pc[t] = "wl_try" /\ Returns(t, "true")
                   \/ pc[t] = "wl_clear" /\ Moves(t) /\ writeReq = priority[t]]_vars

\* A, of priority 1, has failed an attempt and is about to wait while the
\* request of a writer of priority 2 stands.
C16_Witness == pc["A"] = "wl_raise" /\ priority["A"] = 1 /\ writeReq = 2

\* ------------------------------------------------- the unlocks
\* C17: writeUnlock called while readCount # -1 returns false, leaves
\* readCount, reserved and writeReq unchanged and sets no flag; called while
\* readCount = -1 it returns true and sets readCount to 1 if reserved is the
\* caller and to 0 otherwise, leaving reserved and writeReq unchanged.
C17_WriteUnlock ==
    [][\A t \in live :
         /\ writeUnlock(t) =>
               /\ UNCHANGED <<readCount, reserved, writeReq, event>>
               /\ IF readCount # -1 THEN Returns(t, "false") ELSE pc'[t] = "wu_res"
         /\ pc[t] = "wu_res" /\ Moves(t) =>
               /\ UNCHANGED <<readCount, reserved, writeReq>>
               /\ pc'[t] = IF reserved = t THEN "wu_one" ELSE "wu_zero"
         /\ pc[t] \in {"wu_one", "wu_zero"} /\ Moves(t) =>
               /\ readCount' = IF pc[t] = "wu_one" THEN 1 ELSE 0
               /\ reserved' = reserved /\ writeReq' = writeReq
               /\ pc'[t] = "wu_set"
         /\ pc[t] = "wu_set" /\ Moves(t) =>
               /\ UNCHANGED <<readCount, reserved, writeReq>>
               /\ Returns(t, "true")]_vars

\* A, which holds the upgraded write lock, is about to set readCount to 1.
C17_Witness == pc["A"] = "wu_one" /\ readCount = -1 /\ reserved = "A"

\* C18 as stated: a readUnlock that finds readCount <= 0, whoever calls it, the
\* task recorded in reserved included, returns false and leaves readCount,
\* reserved and writeReq unchanged: no step of it up to and including its
\* critical section changes a field, and the critical section sets the
\* return value to false.
C18_UnmatchedReadUnlockAsStated ==
    [][\A t \in live :
         /\ pc[t] \in {"ru_clear", "ru_set", "ru_crit"}
         /\ Moves(t) /\ readCount <= 0
         => /\ UNCHANGED <<readCount, reserved, writeReq>>
            /\ pc[t] = "ru_crit" => ~ret'[t]]_vars

\* C18 amended: a readUnlock whose critical section finds readCount <= 0
\* returns false and leaves readCount and writeReq unchanged; reserved is
\* unchanged as well, unless the caller was the task recorded in reserved,
\* whose reservation is cleared before the critical section, or readCount = 0,
\* where the critical section empties reserved.
C18_UnmatchedReadUnlock ==
    [][\A t \in live :
         /\ readUnlock(t) =>
               /\ UNCHANGED <<readCount, reserved, writeReq>>
               /\ pc'[t] = IF reserved = t THEN "ru_clear" ELSE "ru_crit"
         /\ pc[t] \in {"ru_clear", "ru_set"} /\ Moves(t) =>
               /\ readCount' = readCount /\ writeReq' = writeReq
               /\ reserved' = IF pc[t] = "ru_clear" THEN nullptr ELSE reserved
         /\ pc[t] = "ru_crit" /\ Moves(t) /\ readCount <= 0 =>
               /\ ~ret'[t]
               /\ readCount' = readCount /\ writeReq' = writeReq
               /\ reserved' = IF readCount = 0 THEN nullptr ELSE reserved
         /\ pc[t] \in {"ru_read", "ru_setw"} /\ Moves(t) =>
               /\ UNCHANGED <<readCount, reserved, writeReq>>
               /\ pc'[t] = "idle" =>
                     result'[t] = IF ret[t] THEN "true" ELSE "false"]_vars

\* A, which holds the upgraded write lock, has called readUnlock and is about
\* to clear its reservation.
C18_Witness == pc["A"] = "ru_clear" /\ readCount = -1 /\ reserved = "A"

\* C19 as stated: a readUnlock by a task that holds no read lock, and a
\* writeUnlock by a task that does not hold the write lock, return false, also
\* while another task holds a read lock or the write lock.
C19_MisuseRejectedAsStated ==
    \A m \in Misuse : Remaining(m[1], 0) => result["B"] = "false"

\* C19 amended: such an unlock returns false and changes nothing where
\* readCount shows the misuse, a readUnlock while readCount <= 0 and a
\* writeUnlock while readCount >= 0; a readUnlock while another task holds a
\* read lock returns true and counts that lock down, and a writeUnlock while
\* another task holds the write lock returns true and ends the write mode.
C19_MisuseRejected ==
    /\ Remaining("free, readUnlock", 0) =>
          result["B"] = "false" /\ State(0, nullptr, -1)
    /\ Remaining("free, writeUnlock", 0) =>
          result["B"] = "false" /\ State(0, nullptr, -1)
    /\ Remaining("read, readUnlock", 0) =>
          result["A"] = "true" /\ result["B"] = "true" /\ State(0, nullptr, -1)
    /\ Remaining("read, writeUnlock", 0) =>
          result["A"] = "true" /\ result["B"] = "false" /\ State(1, nullptr, -1)
    /\ Remaining("write, readUnlock", 0) =>
          result["A"] = "true" /\ result["B"] = "false" /\ State(-1, nullptr, -1)
    /\ Remaining("write, writeUnlock", 0) =>
          result["A"] = "true" /\ result["B"] = "true" /\ State(0, nullptr, -1)

\* B's writeUnlock has returned while A holds the write lock.
C19_Witness == Remaining("write, writeUnlock", 0) /\ result["A"] = "true"

\* ------------------------------------------------- the late reservation
\* C20: requestReserved returns true and makes the caller the holder of the
\* reservation if and only if readCount > 0 and reserved is empty; otherwise it
\* returns false and changes nothing; readCount and writeReq are unchanged in
\* both cases; it returns within its call, without a wait, whatever the
\* priority of the caller and writeReq are.
C20_RequestReserved ==
    [][\A t \in live : requestReserved(t) =>
         /\ Returns(t, IF readCount > 0 /\ reserved = nullptr THEN "true" ELSE "false")
         /\ reserved' = IF readCount > 0 /\ reserved = nullptr THEN t ELSE reserved
         /\ UNCHANGED <<readCount, writeReq, event>>
         /\ \A u \in live \ {t} : pc'[u] = pc[u]]_vars

\* A has got the reservation by requestReserved while the request of a writer
\* of higher priority stands.
C20_Witness ==
    /\ pc["A"] = "idle" /\ result["A"] = "true" /\ reserved = "A"
    /\ pc["B"] = "wl_blocked" /\ writeReq = 2 /\ priority["A"] = 1

\* ------------------------------------------------- the release of the reservation
\* C21: releaseReserved by the holder of the reservation clears reserved, sets
\* read_bit and returns true; by any other caller it returns false and changes
\* nothing. It never changes readCount or writeReq. When it returns true the
\* caller is no longer the holder, so that its next call returns false. The
\* read lock of the caller is still counted: with callers that follow the
\* strict protocol, every readUnlock counts readCount down and returns true.
C21_ReleaseReserved ==
    [][\A t \in live :
         /\ releaseReserved(t) =>
               /\ UNCHANGED <<readCount, reserved, writeReq, event>>
               /\ IF reserved = t THEN pc'[t] = "rr_clear" ELSE Returns(t, "false")
         /\ pc[t] = "rr_clear" /\ Moves(t) =>
               /\ reserved' = nullptr /\ pc'[t] = "rr_set"
               /\ UNCHANGED <<readCount, writeReq, event>>
         /\ pc[t] = "rr_set" /\ Moves(t) =>
               /\ Returns(t, "true") /\ reserved' # t
               /\ event' \ {read_bit} = event \ {read_bit}
               /\ read_bit \in event' \/ \E u \in live : pc[u] # pc'[u] /\ pc[u] \in BlockedPcs
               /\ UNCHANGED <<readCount, reserved, writeReq>>
         /\ pc[t] = "ru_crit" /\ Moves(t) /\ discipline = "strict" =>
               ret'[t] /\ readCount' = readCount - 1]_vars

\* A has released its reservation and still holds its read lock, with B.
C21_Witness ==
    /\ pc["A"] = "rr_set" /\ reserved = nullptr /\ readCount = 2
    /\ discipline = "strict" /\ rheld["A"] = 1 /\ rheld["B"] = 1

\* ------------------------------------------------- the reservation and the mode
\* C22 as stated: reserved is non-empty only while readCount > 0.
C22_ReservedInReadModeAsStated == reserved # nullptr => readCount > 0

\* C22 amended: with callers that follow the protocol, reserved is non-empty
\* only while readCount > 0 or, after the upgrade, while readCount = -1.
C22_ReservedInReadMode == reserved # nullptr => readCount > 0 \/ readCount = -1

\* The holder of the reservation has upgraded.
C22_Witness == reserved = "A" /\ readCount = -1 /\ wheld["A"] /\ rheld["A"] = 1

\* ------------------------------------------------- the request that is left
\* The tasks inside writeLock, after the call and before the return.
InWriteLock ==
    {t \in live : pc[t] \in {"wl_try", "wl_clear", "wl_set", "wl_raise",
                             "wl_wait", "wl_blocked", "wl_woke"}}

\* C24: whenever no task is inside writeLock, writeReq is none: while writeReq
\* is P, a task of priority P is inside writeLock and has failed an attempt.
C24_NoRequestLeft ==
    writeReq # -1 =>
        \E t \in InWriteLock : priority[t] = writeReq /\ t \in failed

\* The writer B has returned, timed out, while the request of A stands.
C24_Witness ==
    /\ writeReq = priority["A"] /\ pc["A"] = "wl_blocked"
    /\ pc["B"] = "idle" /\ result["B"] = "false" /\ priority["B"] = 2

\* ------------------------------------------------- the critical sections
\* Where a task is after a check made outside a critical section and before
\* the write that depends on it: releaseReserved and readUnlock after the
\* comparison reserved == task (130, 142), writeUnlock after the test of
\* readCount (209) and the comparison of reserved (210).
Unprotected == {"rr_clear", "ru_clear", "wu_res", "wu_one", "wu_zero"}

\* C29 as stated: every write of readCount, reserved or writeReq is in a
\* critical section with its check, so that no other task changes the fields
\* between the check and the write of an operation.
C29_CriticalSectionsAsStated ==
    [][\A t \in live :
         pc[t] \in Unprotected /\ pc'[t] = pc[t] =>
             UNCHANGED <<readCount, reserved, writeReq>>]_vars

\* C29 amended: the writes of readLock, reservedLock, requestReserved and
\* writeLock, and the write of readCount in readUnlock, are made in the step of
\* their check; releaseReserved, readUnlock (the reservation) and writeUnlock
\* write outside any critical section, and with callers that follow the strict
\* protocol what they have checked (reserved is the caller, readCount is -1)
\* still holds when they write.
C29_CriticalSections ==
    /\ [](discipline = "strict" =>
            \A t \in live :
                /\ pc[t] \in {"rr_clear", "ru_clear", "wu_one"} => reserved = t
                /\ pc[t] = "wu_zero" => reserved # t
                /\ pc[t] \in {"wu_res", "wu_one", "wu_zero"} => readCount = -1)
    /\ [][<<readCount, reserved, writeReq>>' # <<readCount, reserved, writeReq>> =>
            \E t \in live :
                \/ requestReserved(t)
                \/ /\ Moves(t)
                   /\ pc[t] \in {"rl_try", "vl_try", "wl_try", "wl_clear", "wl_raise",
                                 "ru_crit", "rr_clear", "ru_clear", "wu_one", "wu_zero"}]_vars

\* A is between the test of writeUnlock and its write while B goes on.
C29_Witness ==
    /\ discipline = "strict" /\ pc["A"] = "wu_one" /\ pc["B"] = "rl_try"

\* ------------------------------------------------- the flags as hints
\* A wait on the event group that ends for no reason.
event_wait_spurious(t) ==
    /\ pc[t] \in BlockedPcs
    /\ Goto(t, AfterWait(pc[t]))
    /\ UNCHANGED <<lockState, event, now, locals, result, held, script, config>>

\* Bits set from outside the lock: the tasks blocked on them go on.
event_set(bits) ==
    /\ bits # {}
    /\ LET all == event \cup bits
           w == Woken(all)
       IN  /\ event' = all \ {WaitBit(pc[u]) : u \in w}
           /\ pc' = [u \in Tasks |-> IF u \in w THEN AfterWait(pc[u]) ELSE pc[u]]
    /\ UNCHANGED <<lockState, now, locals, result, held, script, config>>

\* Bits cleared from outside the lock.
event_clear(bits) ==
    /\ bits # {} /\ bits \subseteq event
    /\ event' = event \ bits
    /\ UNCHANGED <<lockState, pc, now, locals, result, held, script, config>>

\* The lock with flags that do anything.
NextHavoc ==
    \/ Next
    \/ \E t \in live : event_wait_spurious(t)
    \/ \E bits \in SUBSET {read_bit, write_bit} : event_set(bits)
    \/ \E bits \in SUBSET {read_bit, write_bit} : event_clear(bits)

\* Callers that follow the strict protocol: two tasks that call anything it
\* allows, or an upgrader, a reader and a writer.
InitHavoc == InitProtocol /\ discipline = "strict"

SpecHavoc == InitHavoc /\ [][NextHavoc]_vars

\* C30: whatever the flags do, waits that end for no reason and flags set or
\* cleared from outside included, the lock is safe: readers and a writer
\* exclude each other (for callers that follow the strict protocol), readCount
\* is at least -1, and the reservation goes only to a caller that finds it
\* empty.
C30_FlagsAreHints ==
    /\ []Exclusive
    /\ [](readCount >= -1 /\ Phase # "none")
    /\ [][/\ reserved' # reserved => reserved = nullptr \/ reserved' = nullptr
          /\ \A t \in live :
               pc[t] \in {"rl_try", "vl_try", "wl_try"} /\ Returns(t, "true") =>
                   CASE pc[t] = "rl_try" -> ReadAdmitted(t)
                     [] pc[t] = "vl_try" -> ReservedAdmitted(t)
                     [] OTHER -> WriteAdmitted(t)]_vars

\* The reader B has been woken for no reason while A holds the write lock and
\* read_bit is set.
C30_Witness ==
    /\ wheld["A"] /\ readCount = -1
    /\ pc["B"] = "rl_try" /\ read_bit \in event /\ failed = {}

\* ------------------------------------------------- two tasks that upgrade
\* What an upgrader does: the read lock with the reservation, the upgrade, and
\* the two unlocks, every wait infinite.
Upgrade(t) ==
    << <<t, "reservedLock", portMAX_DELAY>>, <<t, "writeLock", portMAX_DELAY>>,
       <<t, "writeUnlock", 0>>, <<t, "readUnlock", 0>> >>

Upgraders == {"A", "B"}

\* The upgraders A and B, the plain reader C and the plain writer D.
Upgrades ==
    Upgrade("A") \o Upgrade("B") \o
    << <<"C", "readLock", portMAX_DELAY>>, <<"C", "readUnlock", 0>>,
       <<"D", "writeLock", portMAX_DELAY>>, <<"D", "writeUnlock", 0>> >>

\* Each of the four tasks makes its calls, once; the priorities of the
\* upgraders are equal or different, below or above the plain writer's.
InitUpgrade ==
    /\ clock = "free"
    /\ discipline = "strict"
    /\ InitLock
    /\ live = Tasks
    /\ priority \in {[t \in Tasks |-> CASE t = "A" -> 1 [] t = "B" -> b
                                        [] t = "C" -> 1 [] OTHER -> 2] : b \in {1, 3}}
    /\ may = [t \in Tasks |-> {}]
    /\ waits = [t \in Tasks |-> {}]
    /\ scenario = "upgrades"
    /\ script = Upgrades

\* The steps of task t in the operations these tasks call.
Step(t) ==
    \/ \E w \in WaitsOf(t) : readLock(t, w)
    \/ \E n \in TickCount : readLock_try(t, n)
    \/ \E w \in WaitsOf(t) : reservedLock(t, w)
    \/ \E n \in TickCount : reservedLock_try(t, n)
    \/ event_wait(t)
    \/ event_wait_timeout(t)
    \/ readUnlock(t)
    \/ readUnlock_clear(t)
    \/ readUnlock_set(t)
    \/ readUnlock_crit(t)
    \/ readUnlock_read(t)
    \/ readUnlock_setw(t)
    \/ \E w \in WaitsOf(t) : writeLock(t, w)
    \/ \E n \in TickCount : writeLock_try(t, n)
    \/ writeLock_clear(t)
    \/ writeLock_set(t)
    \/ writeLock_raise(t)
    \/ writeUnlock(t)
    \/ writeUnlock_res(t)
    \/ writeUnlock_write(t)
    \/ writeUnlock_set(t)

NextUpgrade ==
    \/ \E t \in live : \E w \in WaitsOf(t) : readLock(t, w)
    \/ \E t \in live, n \in TickCount : readLock_try(t, n)
    \/ \E t \in live : \E w \in WaitsOf(t) : reservedLock(t, w)
    \/ \E t \in live, n \in TickCount : reservedLock_try(t, n)
    \/ \E t \in live : event_wait(t)
    \/ \E t \in live : event_wait_timeout(t)
    \/ \E t \in live : readUnlock(t)
    \/ \E t \in live : readUnlock_clear(t)
    \/ \E t \in live : readUnlock_set(t)
    \/ \E t \in live : readUnlock_crit(t)
    \/ \E t \in live : readUnlock_read(t)
    \/ \E t \in live : readUnlock_setw(t)
    \/ \E t \in live : \E w \in WaitsOf(t) : writeLock(t, w)
    \/ \E t \in live, n \in TickCount : writeLock_try(t, n)
    \/ \E t \in live : writeLock_clear(t)
    \/ \E t \in live : writeLock_set(t)
    \/ \E t \in live : writeLock_raise(t)
    \/ \E t \in live : writeUnlock(t)
    \/ \E t \in live : writeUnlock_res(t)
    \/ \E t \in live : writeUnlock_write(t)
    \/ \E t \in live : writeUnlock_set(t)
    \/ Tick

\* Fair scheduling: a task that can take a step takes one, and the tick
\* interrupt comes.
SpecUpgrade ==
    /\ InitUpgrade /\ [][NextUpgrade]_vars
    /\ WF_vars(Tick)
    /\ \A t \in Tasks : WF_vars(Step(t))

\* Task t waits to upgrade: it holds a read lock and is inside writeLock.
WaitsToUpgrade(t) == rheld[t] > 0 /\ t \in InWriteLock

\* Task t has made all its calls and the last has returned.
Completed(t) == NextCall(t) = 0 /\ pc[t] = "idle" /\ result[t] # "false"

\* C23: with two tasks that run reservedLock, writeLock, writeUnlock and
\* readUnlock with infinite waits, a plain reader and a plain writer, no two
\* tasks ever wait to upgrade together, and under fair scheduling each of the
\* two completes its sequence: none of its calls, which wait until success,
\* returns false, and it comes to the end of the four.
C23_NoUpgradeDeadlock ==
    /\ [](\A t \in Upgraders : \A u \in Upgraders \ {t} :
            ~(WaitsToUpgrade(t) /\ WaitsToUpgrade(u)))
    /\ [](\A t \in Upgraders : result[t] # "false")
    /\ \A t \in Upgraders : <>Completed(t)

\* What is left of C23 when no call of an upgrader returns false: as long as
\* no infinite wait of an upgrader comes to an end, each completes.
C23_UnlessTimedOut ==
    [](\A t \in Upgraders : result[t] # "false") => C23_NoUpgradeDeadlock

\* ------------------------------------------------- the capability adapters
\* Reader and Writer, the two Lockable bases of ReadWriteLock (ReadWrite.h
\* 55-77, ReadWrite.cpp 50-64): each member calls one operation of the lock
\* on the same object (static_cast of this) and returns what it returns.
\* A Reader whose take() asks for the write lock.
Reader_take_write(t, w) == writeLock(t, w)

Reader_take(t, w) == readLock(t, w)

Reader_give(t) == readUnlock(t)

Writer_take(t, w) == writeLock(t, w)

Writer_give(t) == writeUnlock(t)

\* ------------------------------------------------- the scope guard
\* Lock (src/Lock.cpp, src/Lock.h 121-148) over rlock() or wlock() of the lock,
\* owned by task Owner. Positions of the guard (guardPc):
\*   none    no guard has been constructed
\*   idle    in no member
\*   take    in lock(), at lockable.take(wait) (line 104)
\*   give    in unlock(), at lockable.give() (line 118)
\*   dgive   in the destructor, at lockable.give() (line 85)
\*   dead    destroyed
\* A member of the guard is one action up to its call of take() or give(), the
\* call is the operation of the lock, with all its steps, and what the member
\* does once the call has returned is one more action. result[Owner] is "none"
\* from the moment the guard reaches a call until the call has returned.

\* The nesting depth the owner does not exceed.
MaxNest == 2

Views == {"Reader", "Writer"}

\* lockable.take(wait), lockable.give(): the virtual calls of Lock.cpp 104, 85
\* and 118, bound to the Reader or to the Writer the guard was constructed on.
Lockable_take(t, w) ==
    \/ lockable = "Reader" /\ Reader_take(t, w)
    \/ lockable = "Writer" /\ Writer_take(t, w)

Lockable_give(t) ==
    \/ lockable = "Reader" /\ Reader_give(t)
    \/ lockable = "Writer" /\ Writer_give(t)

\* The guard reaches a call of take() or give(), at position p.
Reach(p) ==
    /\ guardPc' = p
    /\ result' = [result EXCEPT ![Owner] = "none"]

\* The call the guard made has returned.
Returned == pc[Owner] = "idle" /\ result[Owner] # "none"

\* What no member of the guard touches.
outside == <<lockState, event, now, pc, locals, held, script, users>>

\* Lock::Lock(mylockable, mylocked, wait), lines 53-58: lockCnt(0), and
\* lock(wait) if mylocked, which finds lockCnt = 0 and goes to take().
Lock_ctor(view, mylocked) ==
    /\ guardPc \in {"none", "dead"}
    /\ lockable' = view
    /\ lockCnt' = 0
    /\ guardOp' = "ctor"
    /\ lockRet' = "none"
    /\ IF mylocked THEN Reach("take") ELSE guardPc' = "idle" /\ UNCHANGED result
    /\ UNCHANGED <<taken, outside>>

\* A lock() that goes to take() whatever the count.
Lock_lock_always ==
    /\ guardPc = "idle"
    /\ lockCnt < MaxNest
    /\ guardOp' = "lock"
    /\ Reach("take")
    /\ UNCHANGED <<lockCnt, lockRet, lockable, taken, outside>>

\* Lock::lock(wait), lines 99-104: a nested lock is counted and returns true,
\* the first goes to take().
Lock_lock ==
    /\ guardPc = "idle"
    /\ lockCnt < MaxNest
    /\ guardOp' = "lock"
    /\ IF lockCnt > 0
       THEN /\ lockCnt' = lockCnt + 1
            /\ lockRet' = "true"
            /\ UNCHANGED <<guardPc, result>>
       ELSE /\ Reach("take")
            /\ UNCHANGED <<lockCnt, lockRet>>
    /\ UNCHANGED <<lockable, taken, outside>>

\* Lock::lock(wait), lines 104-108: take() has returned.
Lock_lock_taken ==
    /\ guardPc = "take"
    /\ Returned
    /\ guardPc' = "idle"
    /\ IF result[Owner] = "true"
       THEN /\ lockCnt' = lockCnt + 1
            /\ lockRet' = "true"
            /\ taken' = taken + 1
       ELSE /\ lockRet' = "false"
            /\ UNCHANGED <<lockCnt, taken>>
    /\ UNCHANGED <<lockable, guardOp, result, outside>>

\* An unlock() that does not look at the count.
Lock_unlock_blind ==
    /\ guardPc = "idle"
    /\ guardOp' = "unlock"
    /\ lockCnt' = lockCnt - 1
    /\ IF lockCnt' <= 0 THEN Reach("give") ELSE UNCHANGED <<guardPc, result>>
    /\ UNCHANGED <<lockable, lockRet, taken, outside>>

\* Lock::unlock(), lines 114-118: nothing at count 0; else one lock less, and
\* give() when none is left.
Lock_unlock ==
    /\ guardPc = "idle"
    /\ guardOp' = "unlock"
    /\ IF lockCnt > 0
       THEN /\ lockCnt' = lockCnt - 1
            /\ IF lockCnt' = 0 THEN Reach("give") ELSE UNCHANGED <<guardPc, result>>
       ELSE UNCHANGED <<lockCnt, guardPc, result>>
    /\ UNCHANGED <<lockable, lockRet, taken, outside>>

\* Lock::unlock(), lines 118-121: give() has returned.
Lock_unlock_given ==
    /\ guardPc = "give"
    /\ Returned
    /\ guardPc' = "idle"
    /\ taken' = taken - 1
    /\ UNCHANGED <<lockable, lockCnt, lockRet, guardOp, result, outside>>

\* A destructor that gives nothing back.
Lock_dtor_leaky ==
    /\ guardPc = "idle"
    /\ guardOp' = "dtor"
    /\ guardPc' = "dead"
    /\ lockCnt' = 0
    /\ UNCHANGED <<lockable, lockRet, taken, result, outside>>

\* Lock::~Lock(), lines 82-85: give() if locked, and lockCnt = 0.
Lock_dtor ==
    /\ guardPc = "idle"
    /\ guardOp' = "dtor"
    /\ IF lockCnt > 0
       THEN Reach("dgive") /\ UNCHANGED lockCnt
       ELSE guardPc' = "dead" /\ lockCnt' = 0 /\ UNCHANGED result
    /\ UNCHANGED <<lockable, lockRet, taken, outside>>

\* Lock::~Lock(), lines 85-88: give() has returned.
Lock_dtor_given ==
    /\ guardPc = "dgive"
    /\ Returned
    /\ guardPc' = "dead"
    /\ lockCnt' = 0
    /\ taken' = taken - 1
    /\ UNCHANGED <<lockable, lockRet, guardOp, result, outside>>

\* The owner uses the lock through its guard alone; the other task calls any
\* operation the strict protocol allows.
InitGuard ==
    /\ clock = "free"
    /\ discipline = "strict"
    /\ InitLock
    /\ live = {"A", "B"}
    /\ priority \in {[t \in Tasks |-> 1], [t \in Tasks |-> IF t = "A" THEN 1 ELSE 2]}
    /\ may = [t \in Tasks |-> Ops]
    /\ waits = [t \in Tasks |-> {0, MaxWait}]
    /\ script = <<>>
    /\ scenario = "guard"

NextGuard ==
    \/ \E view \in Views, mylocked \in BOOLEAN : Lock_ctor(view, mylocked)
    \/ Lock_lock
    \/ Lock_lock_taken
    \/ Lock_unlock
    \/ Lock_unlock_given
    \/ Lock_dtor
    \/ Lock_dtor_given
    \/ \E w \in WaitsOf(Owner) : Lockable_take(Owner, w)
    \/ Lockable_give(Owner)
    \/ \E t \in live \ {Owner} : \E w \in WaitsOf(t) : readLock(t, w)
    \/ \E t \in live \ {Owner} : \E w \in WaitsOf(t) : reservedLock(t, w)
    \/ \E t \in live \ {Owner} : \E w \in WaitsOf(t) : writeLock(t, w)
    \/ \E t \in live \ {Owner} : requestReserved(t)
    \/ \E t \in live \ {Owner} : releaseReserved(t)
    \/ \E t \in live \ {Owner} : readUnlock(t)
    \/ \E t \in live \ {Owner} : writeUnlock(t)
    \/ \E t \in live, n \in TickCount : readLock_try(t, n)
    \/ \E t \in live, n \in TickCount : reservedLock_try(t, n)
    \/ \E t \in live : event_wait(t)
    \/ \E t \in live : event_wait_timeout(t)
    \/ Tick
    \/ \E t \in live : releaseReserved_clear(t)
    \/ \E t \in live : releaseReserved_set(t)
    \/ \E t \in live : readUnlock_clear(t)
    \/ \E t \in live : readUnlock_set(t)
    \/ \E t \in live : readUnlock_crit(t)
    \/ \E t \in live : readUnlock_read(t)
    \/ \E t \in live : readUnlock_setw(t)
    \/ \E t \in live, n \in TickCount : writeLock_try(t, n)
    \/ \E t \in live : writeLock_clear(t)
    \/ \E t \in live : writeLock_set(t)
    \/ \E t \in live : writeLock_raise(t)
    \/ \E t \in live : writeUnlock_res(t)
    \/ \E t \in live : writeUnlock_write(t)
    \/ \E t \in live : writeUnlock_set(t)

SpecGuard == InitGuard /\ [][NextGuard]_vars

\* ------------------------------------------------- C25
\* The positions of readLock and readUnlock, and of writeLock and writeUnlock.
ReadSide == {"rl_try", "rl_wait", "rl_blocked", "rl_woke",
             "ru_clear", "ru_set", "ru_crit", "ru_read", "ru_setw"}

WriteSide == {"wl_try", "wl_clear", "wl_set", "wl_raise", "wl_wait", "wl_blocked",
              "wl_woke", "wu_res", "wu_one", "wu_zero", "wu_set"}

\* C25: the adapters are pure delegation. Reader.take(wait) and Reader.give()
\* are the steps readLock(wait) and readUnlock() of the same caller on the same
\* lock state, Writer.take(wait) and Writer.give() are writeLock(wait) and
\* writeUnlock(); so a guard on rlock() is only ever inside readLock or
\* readUnlock and holds one read lock while it is locked, and a guard on
\* wlock() is only ever inside writeLock or writeUnlock and holds the write
\* lock while it is locked.
C25_AdaptersDelegate ==
    /\ [](lockable = "Reader" =>
            /\ pc[Owner] \in {"idle"} \cup ReadSide
            /\ guardPc = "idle" /\ taken = 1 => rheld[Owner] = 1 /\ ~wheld[Owner])
    /\ [](lockable = "Writer" =>
            /\ pc[Owner] \in {"idle"} \cup WriteSide
            /\ guardPc = "idle" /\ taken = 1 => rheld[Owner] = 0 /\ wheld[Owner])
    /\ [][\A t \in Tasks :
            /\ \A w \in 0 .. TickMod - 1 :
                  /\ Reader_take(t, w) <=> readLock(t, w)
                  /\ Writer_take(t, w) <=> writeLock(t, w)
            /\ Reader_give(t) <=> readUnlock(t)
            /\ Writer_give(t) <=> writeUnlock(t)]_vars

\* A guard on rlock() holds a read lock while a guard-less task waits to write.
C25_Witness ==
    /\ lockable = "Reader" /\ guardPc = "idle" /\ taken = 1
    /\ readCount = 1 /\ rheld[Owner] = 1
    /\ pc["B"] = "wl_blocked"

\* ------------------------------------------------- C26, C27, C28
\* Lock::locked(), Lock.h 144.
locked == lockCnt > 0

\* A member of the guard takes a step.
GuardMoves == guard' # guard

\* The step with which lock(), unlock() or the destructor is entered.
Enters(op) == GuardMoves /\ guardPc = "idle" /\ guardOp' = op

\* C26: the guard nests. Whenever it is in no member, its successful take()
\* calls less its give() calls are 1 exactly when locked() and 0 otherwise; a
\* lock() made while it is locked returns true, counts one more and calls no
\* take(); and give() is called only by the unlock() that brings the count
\* from 1 to 0, an unlock() at a greater count calls nothing.
C26_GuardNests ==
    /\ [](guardPc = "idle" => taken = (IF locked THEN 1 ELSE 0))
    /\ [][/\ Enters("lock") /\ locked =>
                /\ lockRet' = "true"
                /\ lockCnt' = lockCnt + 1
                /\ guardPc' = "idle" /\ taken' = taken
          /\ guardPc # "give" /\ guardPc' = "give" =>
                Enters("unlock") /\ lockCnt = 1 /\ lockCnt' = 0
          /\ Enters("unlock") /\ lockCnt > 1 =>
                lockCnt' = lockCnt - 1 /\ guardPc' = "idle" /\ taken' = taken]_vars

\* The guard is locked twice over while the other task waits for the lock.
C26_Witness ==
    /\ guardPc = "idle" /\ guardOp = "lock" /\ lockCnt = 2 /\ taken = 1
    /\ pc["B"] \in BlockedPcs

\* C27: the guard ignores extra unlocks and failed takes. lockCnt is never
\* negative; an unlock() at count 0 calls no give() and leaves the count 0; a
\* lock() whose take() fails returns false and leaves the count as it was,
\* locked() false.
C27_GuardIgnores ==
    /\ [](lockCnt >= 0)
    /\ [][/\ Enters("unlock") /\ lockCnt = 0 =>
                lockCnt' = 0 /\ guardPc' = "idle" /\ taken' = taken
          /\ guardPc = "take" /\ guardPc' # "take" /\ result[Owner] = "false" =>
                /\ lockRet' = "false"
                /\ lockCnt' = lockCnt /\ ~locked'
                /\ guardPc' = "idle" /\ taken' = taken]_vars

\* unlock() has been called on a guard whose lock() had failed.
C27_Witness ==
    /\ guardPc = "idle" /\ guardOp = "unlock" /\ lockRet = "false"
    /\ lockCnt = 0 /\ taken = 0

\* C28: the destructor of a locked guard, whatever its depth, calls give()
\* once, and the destructor of a guard that is not locked calls none; a
\* destroyed guard has given back what it took, and its owner holds nothing.
C28_GuardReleases ==
    /\ [](guardPc = "dead" =>
            /\ taken = 0 /\ lockCnt = 0
            /\ rheld[Owner] = 0 /\ ~wheld[Owner])
    /\ [][/\ Enters("dtor") /\ locked => guardPc' = "dgive" /\ taken' = taken
          /\ Enters("dtor") /\ ~locked => guardPc' = "dead" /\ taken' = taken
          /\ guardPc = "dgive" /\ pc[Owner] = "idle" /\ pc'[Owner] # "idle" =>
                result[Owner] = "none"
          /\ guardPc = "dgive" /\ guardPc' # "dgive" =>
                /\ Returned
                /\ guardPc' = "dead" /\ taken' = taken - 1]_vars

\* The destructor of a guard locked to the full depth is inside give().
C28_Witness ==
    /\ guardPc = "dgive" /\ lockCnt = MaxNest /\ taken = 1
    /\ pc[Owner] \in {"ru_crit", "wu_res"}

\* ------------------------------------------------- C31
\* This step sets the bits: each is set after it, or a task that was blocked on
\* it has been let go (and has cleared it on its way out).
Sets(bits) ==
    \A b \in bits :
        \/ b \in event'
        \/ \E u \in Tasks :
              pc[u] \in BlockedPcs /\ WaitBit(pc[u]) = b /\ pc'[u] = AfterWait(pc[u])

\* What of C31 does not depend on when readCount is read: a writeUnlock that
\* returns true has set both bits with its last step, and a readUnlock or a
\* releaseReserved that has cleared the reservation of its caller sets read_bit
\* with its next step.
C31_SignalsOfRelease ==
    [][\A t \in Tasks :
          /\ pc[t] \in {"wu_res", "wu_one", "wu_zero", "wu_set"} /\ Returns(t, "true") =>
                pc[t] = "wu_set" /\ Sets({read_bit, write_bit})
          /\ pc[t] \in {"wu_res", "wu_one", "wu_zero"} /\ Moves(t) => pc'[t] # "idle"
          /\ pc[t] \in {"ru_clear", "rr_clear"} /\ Moves(t) =>
                reserved' = nullptr /\ pc'[t] \in {"ru_set", "rr_set"}
          /\ pc[t] \in {"ru_set", "rr_set"} /\ Moves(t) => Sets({read_bit})
          /\ pc[t] = "ru_setw" /\ Moves(t) => Sets({write_bit})]_vars

\* C31 as stated: the release operations signal the waiters: as
\* C31_SignalsOfRelease, and a readUnlock whose critical section has left
\* readCount 0 goes on to set write_bit.
C31_ReleaseSignalsAsStated ==
    /\ C31_SignalsOfRelease
    /\ [][\A t \in Tasks :
            pc[t] = "ru_read" /\ t \in zeroed /\ Moves(t) => pc'[t] = "ru_setw"]_vars

\* C31: the release operations signal the waiters: as C31_SignalsOfRelease, and
\* a readUnlock that finds readCount 0 when it reads it after its critical
\* section (line 159) goes on to set write_bit, and returns without doing so
\* when it finds another value.
C31_ReleaseSignals ==
    /\ C31_SignalsOfRelease
    /\ [][\A t \in Tasks :
            pc[t] = "ru_read" /\ Moves(t) =>
                IF readCount = 0 THEN pc'[t] = "ru_setw" ELSE pc'[t] = "idle"]_vars

\* A reader is about to set write_bit for a writer that is blocked.
C31_Witness ==
    \E t \in live : pc[t] = "ru_setw" /\ readCount = 0 /\ pc["C"] = "wl_blocked"

\* ------------------------------------------------- C32
\* C32: the fairness gap. A writer that leaves writeLock, with the lock or by
\* the timeout that finds writeReq at its priority, leaves writeReq at none
\* whoever else waits; and in the scenario "gap" the reader A, which calls
\* readLock once the writers D and C are waiting, is admitted only after C has
\* timed out and withdrawn its request. The witness is the execution of the claim:
\* A, of priority 1, is then admitted while D, of priority 3, is still inside
\* its writeLock with a failed attempt behind it.
C32_FairnessGap ==
    [][/\ \A h \in Tasks :
            \/ pc[h] = "wl_try" /\ Returns(h, "true")
            \/ pc[h] = "wl_clear" /\ writeReq = priority[h] /\ Moves(h)
            => writeReq' = -1
       /\ scenario = "gap" /\ pc["A"] = "rl_try" /\ Returns("A", "true") =>
            /\ pc["C"] \in {"wl_set", "idle"} /\ result["C"] # "true"
            /\ priority["A"] <= priority["D"] => writeReq = -1]_vars

C32_Witness ==
    /\ scenario = "gap" /\ script = <<>>
    /\ pc["C"] = "idle" /\ result["C"] = "false"
    /\ pc["A"] = "idle" /\ result["A"] = "true"
    /\ priority["A"] <= priority["D"]
    /\ "D" \in failed /\ "D" \in InWriteLock
    /\ readCount = 2

\* ------------------------------------------------- C33
\* The lock is in the state Upgraded of ReadWrite.h (83-88).
Upgraded == readCount = -1 /\ reserved # nullptr

Upgraded_next == readCount' = -1 /\ reserved' # nullptr

\* The steps into, out of and inside the phase Upgraded: it is entered by the
\* writeLock of the holder of the reservation from Reserved with readCount 1,
\* and left by the writeUnlock of that task alone, to Reserved with readCount 1
\* and the reservation as it was; and a writeLock that succeeds from Free
\* leaves reserved empty, where it stays as long as the lock is held.
UpgradedSteps ==
    /\ ~Upgraded /\ Upgraded_next =>
          \E t \in live :
              /\ pc[t] = "wl_try" /\ Returns(t, "true")
              /\ reserved = t /\ reserved' = t /\ readCount = 1
    /\ Upgraded /\ ~Upgraded_next =>
          \E t \in live :
              /\ pc[t] = "wu_one" /\ reserved = t
              /\ readCount' = 1 /\ reserved' = t
    /\ Upgraded /\ Upgraded_next => reserved' = reserved
    /\ \A t \in live :
          pc[t] = "wl_try" /\ Returns(t, "true") /\ readCount = 0 =>
              reserved' = nullptr

\* In the phase Upgraded reserved is the task that holds the write lock, and
\* its read lock with it.
UpgradedHeld == Upgraded => wheld[reserved] /\ rheld[reserved] = 1

\* C33 as stated: the phase Upgraded has this shape, UpgradedHeld and
\* UpgradedSteps, when the callers follow the protocol (each unlock matches a
\* lock the caller holds, requestReserved is called only by a task holding a
\* read lock).
C33_UpgradedShapeAsStated ==
    /\ [](discipline \in {"protocol", "strict"} => UpgradedHeld)
    /\ [][(discipline \in {"protocol", "strict"}) => UpgradedSteps]_vars

\* C33 amended: the phase Upgraded has this shape, UpgradedHeld and
\* UpgradedSteps, when the callers follow the protocol and a task that holds
\* the write lock calls neither releaseReserved nor readUnlock before it has
\* called writeUnlock.
C33_UpgradedShape ==
    /\ [](discipline = "strict" => UpgradedHeld)
    /\ [][(discipline = "strict") => UpgradedSteps]_vars

\* The upgrader A has come back from Upgraded to Reserved and is about to tell
\* the reader B, which is blocked.
C33_Witness ==
    /\ discipline = "strict"
    /\ pc["A"] = "wu_set" /\ readCount = 1 /\ reserved = "A" /\ rheld["A"] = 1
    /\ pc["B"] = "rl_blocked"

\* ------------------------------------------------- C34
\* The read locks granted to the tasks of S and not yet released.
RECURSIVE Granted(_)
Granted(S) ==
    IF S = {} THEN 0
    ELSE LET t == CHOOSE u \in S : TRUE IN rheld[t] + Granted(S \ {t})

\* Task t is inside readUnlock.
InReadUnlock(t) == pc[t] \in {"ru_clear", "ru_set", "ru_crit", "ru_read", "ru_setw"}

\* While readCount >= 0 and no readUnlock is in progress, readCount is the
\* number of read locks granted and not yet released.
CountMatches ==
    readCount >= 0 /\ (\A t \in Tasks : ~InReadUnlock(t)) => readCount = Granted(Tasks)

\* C34 as stated: CountMatches in every state, when the callers follow the
\* protocol.
C34_CountMatchesHoldersAsStated ==
    discipline \in {"protocol", "strict"} => CountMatches

\* C34 amended: CountMatches in every state, when the callers follow the
\* protocol and a task that holds the write lock calls neither releaseReserved
\* nor readUnlock before it has called writeUnlock.
C34_CountMatchesHolders == discipline = "strict" => CountMatches

\* The last of the readers has unlocked and set write_bit: the count is 0.
C34_Witness ==
    /\ discipline = "strict"
    /\ pc["A"] = "idle" /\ result["A"] = "true" /\ rheld["A"] = 0
    /\ pc["B"] = "idle" /\ result["B"] = "true" /\ rheld["B"] = 0
    /\ readCount = 0 /\ write_bit \in event

\* ------------------------------------------------- C35
\* Free means unreserved: with readCount 0 and no operation in progress,
\* reserved is empty.
FreeUnreserved ==
    readCount = 0 /\ (\A t \in Tasks : pc[t] = "idle") => reserved = nullptr

\* C35 as stated: FreeUnreserved in every state, whatever the callers do, a
\* writeUnlock or a readUnlock by a task other than the holder included.
C35_FreeMeansUnreservedAsStated == FreeUnreserved

\* C35 amended: FreeUnreserved in every state, whatever the callers do, a
\* readUnlock by a task other than the holder included, as long as writeUnlock
\* is called by the holder of the write lock alone.
C35_FreeMeansUnreserved == discipline = "owned" => FreeUnreserved

\* B has unlocked the read lock of A, the holder of the reservation: the lock
\* is free and the reservation is gone.
C35_Witness ==
    /\ discipline = "owned"
    /\ readCount = 0 /\ reserved = nullptr
    /\ pc["A"] = "idle" /\ result["A"] = "false"
    /\ pc["B"] = "idle" /\ result["B"] = "true" /\ write_bit \in event

\* ------------------------------------------------- progress of a writer
\* A reader that takes and gives back the read lock, twice over, waiting at
\* most w ticks for it.
Reads(t, w) ==
    << <<t, "readLock", w>>, <<t, "readUnlock", 0>>,
       <<t, "readLock", w>>, <<t, "readUnlock", 0>> >>

\* "writer": the one writer C, with the default wait, and the readers A and B.
\* "polling": the upgrader A, every wait infinite, and the readers B and C,
\* which take the read lock once, if they get it at once.
Progress(name) ==
    IF name = "writer"
    THEN Reads("A", MaxWait) \o Reads("B", MaxWait) \o
         << <<"C", "writeLock", portMAX_DELAY>>, <<"C", "writeUnlock", 0>> >>
    ELSE Upgrade("A") \o
         << <<"B", "readLock", 0>>, <<"B", "readUnlock", 0>>,
            <<"C", "readLock", 0>>, <<"C", "readUnlock", 0>> >>

\* Three tasks, A of priority 1, B of priority 1 or 2 and C of priority 2, that
\* make the calls of one of the two scenarios, each task its own in their
\* order, and that may be delayed for any time between two steps.
InitProgress ==
    /\ clock = "free"
    /\ discipline = "strict"
    /\ InitLock
    /\ live = {"A", "B", "C"}
    /\ priority \in {[t \in Tasks |-> CASE t = "A" -> 1 [] t = "B" -> b [] OTHER -> 2] :
                         b \in {1, 2}}
    /\ may = [t \in Tasks |-> {}]
    /\ waits = [t \in Tasks |-> {}]
    /\ scenario \in {"writer", "polling"}
    /\ script = Progress(scenario)

\* Fair scheduling: a task that can take a step takes one, and the tick
\* interrupt comes. A task that holds a read lock has readUnlock as its next
\* call, so that every read holder unlocks after a finite time.
SpecProgress ==
    /\ InitProgress /\ [][NextUpgrade]_vars
    /\ WF_vars(Tick)
    /\ \A t \in Tasks : WF_vars(Step(t))

\* The one writer of scenario "writer" and its priority P.
TheWriter == "C"

\* While the writer's request stands at P no reader comes in: the number of
\* readers does not grow.
NoNewReader ==
    writeReq = priority[TheWriter] /\ readCount >= 0 => readCount' <= readCount

\* C36: one task calls writeLock with the infinite wait at priority P, no task
\* upgrades, the readers have priorities at most P and every holder unlocks
\* after a finite time. Under weak fairness the writer acquires the lock: its
\* call does not return false, no reader is admitted once writeReq is P, and
\* the call leads to the writer holding the write lock.
C36_SingleWriterProgress ==
    /\ [](scenario = "writer" => result[TheWriter] # "false")
    /\ [][(scenario = "writer") => NoNewReader]_vars
    /\ (scenario = "writer" /\ TheWriter \in InWriteLock) ~> wheld[TheWriter]

\* What is left of C36 when the writer's infinite wait does not come to an
\* end: as long as its call does not return false, the writer acquires.
C36_UnlessTimedOut ==
    [](scenario = "writer" => result[TheWriter] # "false")
        => ((scenario = "writer" /\ TheWriter \in InWriteLock) ~> wheld[TheWriter])

\* No new reader while the writer's request stands, on its own.
C36_NoNewReader == [][(scenario = "writer") => NoNewReader]_vars

\* ------------------------------------------------- progress of an upgrader
\* The one upgrader of scenario "polling".
TheUpgrader == "A"

\* The positions inside event.wait(write_bit, ...) of line 202.
Polls == {"wl_wait", "wl_blocked", "wl_woke"}

\* The other readers have unlocked: none holds a read lock, none is inside
\* readLock and none has a readLock to call.
OthersOut ==
    \A t \in live \ {TheUpgrader} :
        /\ rheld[t] = 0
        /\ pc[t] \notin {"rl_try", "rl_wait", "rl_blocked", "rl_woke"}
        /\ ~Permitted(t, "readLock")

\* The upgrader waits inside writeLock and is the one reader left.
Drained ==
    /\ scenario = "polling"
    /\ pc[TheUpgrader] \in Polls
    /\ reserved = TheUpgrader
    /\ readCount = 1
    /\ OthersOut

\* C37: the holder of the reservation, blocked in writeLock with the infinite
\* wait while other readers hold the lock, acquires once those readers have
\* unlocked and readCount is 1. The readUnlock of another reader, which finds
\* readCount other than 0 at line 159, returns without setting write_bit and
\* without waking the upgrader; unless a readUnlock that found readCount 0
\* before the upgrader came is still to set write_bit, the upgrader leaves its
\* wait by the tick that ends the wait of one tick, and its next attempt
\* succeeds.
C37_UpgraderPolls ==
    /\ [][scenario = "polling" =>
            /\ \A t \in live \ {TheUpgrader} :
                  pc[t] = "ru_read" /\ Moves(t) /\ TheUpgrader \in InWriteLock =>
                      /\ pc'[t] = "idle"
                      /\ event' = event
                      /\ pc'[TheUpgrader] = pc[TheUpgrader]
            /\ /\ pc[TheUpgrader] = "wl_blocked" /\ Moves(TheUpgrader)
               /\ \A t \in live : pc[t] # "ru_setw"
               => pc'[TheUpgrader] = "wl_woke" /\ event' = event]_vars
    /\ Drained ~> wheld[TheUpgrader]

\* The upgrader, the one reader left, has been woken by the tick and is about
\* to try again; write_bit has not been set.
C37_Witness ==
    /\ Drained
    /\ pc[TheUpgrader] = "wl_woke"
    /\ write_bit \notin event
    /\ \E t \in live \ {TheUpgrader} : pc[t] = "idle" /\ result[t] = "true" /\ NextCall(t) = 0

\* ------------------------------------------------- the finite timeout
\* A takes the write lock and keeps it; then B calls op and D writeLock, each
\* with the wait n: no admission test holds again.
Timeout(op, n) ==
    << <<"A", "writeLock", 0>>, <<Timed, op, n>>, <<"D", "writeLock", n>> >>

\* The waits of the scenario: finite, above 0.
Finite == {MaxWait, MaxWait + 1}

\* The tick count is counted and starts anywhere, so that it wraps between the
\* start of a call and its end.
InitTimeout ==
    /\ clock = "counted"
    /\ discipline = "any"
    /\ InitLock
    /\ live = Tasks
    /\ priority = [t \in Tasks |-> 1]
    /\ may = [t \in Tasks |-> {}]
    /\ waits = [t \in Tasks |-> {}]
    /\ scenario = "timeout"
    /\ script \in {Timeout(op, n) : op \in {"readLock", "reservedLock", "writeLock"},
                                      n \in Finite}

\* The steps of the three acquisitions, and the tick.
NextTimeout ==
    \/ \E t \in live : \E w \in WaitsOf(t) : readLock(t, w)
    \/ \E t \in live, n \in TickCount : readLock_try(t, n)
    \/ \E t \in live : \E w \in WaitsOf(t) : reservedLock(t, w)
    \/ \E t \in live, n \in TickCount : reservedLock_try(t, n)
    \/ \E t \in live : event_wait(t)
    \/ \E t \in live : event_wait_timeout(t)
    \/ \E t \in live : \E w \in WaitsOf(t) : writeLock(t, w)
    \/ \E t \in live, n \in TickCount : writeLock_try(t, n)
    \/ \E t \in live : writeLock_clear(t)
    \/ \E t \in live : writeLock_set(t)
    \/ \E t \in live : writeLock_raise(t)
    \/ Tick

SpecTimeout == InitTimeout /\ [][NextTimeout]_vars

\* The tasks whose admission test never holds.
Shut == {Timed, "D"}

\* now - start in TickType_t arithmetic is the number of ticks since the call,
\* modulo 2^TickBits, whether or not the tick count has wrapped.
ElapsedIsAge ==
    pc[Timed] # "idle" /\ age < AgeCap => Elapsed(Timed, now) = age % TickMod

\* A re-evaluation of t: the attempt at the top of the loop and the test of the
\* time that follows it. It gives up (returns false, or in writeLock goes on to
\* the critical section of the timeout) exactly when (now - start) mod
\* 2^TickBits >= wait, and goes to wait for one tick otherwise.
Reevaluates(t) ==
    /\ pc[t] \in {"rl_try", "vl_try"} /\ Moves(t) =>
          IF Elapsed(t, now) >= wait[t]
          THEN Returns(t, "false")
          ELSE pc'[t] \in WaitPcs
    /\ pc[t] = "wl_try" /\ Moves(t) =>
          IF Elapsed(t, now) >= wait[t]
          THEN pc'[t] = "wl_clear"
          ELSE pc'[t] = "wl_raise"
    /\ pc[t] = "wl_clear" /\ Moves(t) => Returns(t, "false") \/ pc'[t] = "wl_set"
    /\ pc[t] = "wl_set" /\ Moves(t) => Returns(t, "false")

\* C38: with a finite wait N > 0, a readLock, reservedLock or writeLock whose
\* admission test never holds returns false from its first re-evaluation at
\* which (now - start) mod 2^TickBits >= N, and from none before; N ticks at
\* least have come since the call by then, also when the tick count has wrapped
\* between start and now.
C38_FiniteTimeout ==
    /\ [](scenario = "timeout" => ElapsedIsAge)
    /\ [][(scenario = "timeout") =>
            /\ \A t \in Shut :
                  /\ Reevaluates(t)
                  /\ pc[t] # "idle" => result[t] # "true" /\ result'[t] # "true"
            /\ pc[Timed] \in {"rl_try", "vl_try", "wl_try"} /\ Moves(Timed) =>
                  \/ pc'[Timed] \in {"rl_wait", "vl_wait", "wl_raise"}
                  \/ age >= wait[Timed]]_vars

\* The tick count has wrapped since the writeLock of the task Timed read
\* start, and the call gives up after as many ticks as its wait.
C38_Witness ==
    /\ scenario = "timeout"
    /\ pc[Timed] = "wl_clear" /\ now < start[Timed] /\ age = wait[Timed]
    /\ wait[Timed] = MaxWait + 1

\* ------------------------------------------------- what a failed call leaves
\* The positions of readLock and reservedLock from which the task itself takes
\* the next step.
ReaderSteps == {"rl_try", "rl_wait", "rl_woke", "vl_try", "vl_wait", "vl_woke"}

\* A step of readLock or reservedLock of task t, the call included, that does
\* not return true: it changes none of readCount, reserved and writeReq, sets
\* no bit of the event group and wakes no task.
FailedReaderSteps(t) ==
    /\ \/ pc[t] = "idle" /\ pc'[t] \in {"rl_try", "vl_try"}
       \/ pc[t] \in ReaderSteps /\ Moves(t) /\ ~Returns(t, "true")
       => /\ UNCHANGED lockState
          /\ event' \subseteq event
          /\ \A u \in Tasks \ {t} : pc'[u] = pc[u]
    /\ pc[t] \in ReaderSteps /\ Returns(t, "false") => pc[t] \in {"rl_try", "vl_try"}

\* The critical section of the timeout of writeLock: it resets writeReq when
\* writeReq is the priority of t, and changes nothing else.
FailedWriterClears(t) ==
    pc[t] = "wl_clear" /\ Moves(t) =>
        /\ UNCHANGED <<readCount, reserved, event>>
        /\ \A u \in Tasks \ {t} : pc'[u] = pc[u]
        /\ \/ writeReq = priority[t] /\ writeReq' = -1 /\ pc'[t] = "wl_set"
           \/ writeReq # priority[t] /\ UNCHANGED writeReq /\ Returns(t, "false")

\* C39 as stated: a readLock or reservedLock that returns false has changed
\* none of readCount, reserved and writeReq and has set no event flag, and a
\* writeLock that returns false leaves nothing behind but writeReq reset to
\* none: after the reset it returns with the event group as it was.
C39_FailureLeavesNothingAsStated ==
    [][\A t \in live :
         /\ FailedReaderSteps(t)
         /\ FailedWriterClears(t)
         /\ pc[t] = "wl_set" /\ Moves(t) =>
               /\ Returns(t, "false")
               /\ UNCHANGED <<lockState, event>>
               /\ \A u \in Tasks \ {t} : pc'[u] = pc[u]]_vars

\* C39: a readLock or reservedLock that returns false has changed none of
\* readCount, reserved and writeReq and has set no event flag; a writeLock that
\* returns false leaves behind writeReq reset to none, when writeReq was its
\* priority at the timeout, and then both bits of the event group set (line
\* 188), and nothing else.
C39_FailureLeavesNothing ==
    [][\A t \in live :
         /\ FailedReaderSteps(t)
         /\ FailedWriterClears(t)
         /\ pc[t] = "wl_set" /\ Moves(t) =>
               /\ Returns(t, "false")
               /\ UNCHANGED lockState
               /\ Sets({read_bit, write_bit})]_vars

\* A writeLock that has timed out and reset writeReq is about to set the bits,
\* while a reader waits for read_bit.
C39_Witness ==
    \E t \in live : \E u \in live \ {t} :
        pc[t] = "wl_set" /\ writeReq = -1 /\ pc[u] = "rl_blocked"

====
